---- MODULE Spec2Model ----
(***************************************************************************)
(* Model of the skill evaluator: the pattern scanner with its five layers  *)
(* and severity-tier score (security_scanner.py) and the risk aggregator   *)
(* (evaluate_skill.py).                                                    *)
(*                                                                         *)
(* A line of a script file is a sequence of lexical atoms (text fragments  *)
(* separated by blanks); a regular expression is modelled by the atoms it  *)
(* matches, re.search by the leftmost such atom of the line.               *)
(***************************************************************************)
EXTENDS Integers, Sequences, FiniteSets, TLC

VARIABLES
  tree,           \* the scanned file tree, in the order rglob walks it
  issues,         \* SecurityScanner.issues
  layer_results,  \* SecurityScanner.layer_results
  pc,             \* position of the scanner inside analyze()
  calls,          \* analyze() calls completed on the current scanner object
  result,         \* value returned by the last analyze(), None before
  scanned,        \* the _scan_patterns calls of the current analyze(): <<layer, category>>
  sc_issues,      \* pure scoring: the list of findings handed to the functions
  sc_security,    \* pure scoring: calculate_security_score's value, None before
  sc_layer,       \* pure scoring: _calculate_layer_score's value, None before
  results,        \* SkillEvaluator.results
  args,           \* main: the parsed command line and what its skill path names
  temp_dir,       \* SkillEvaluator.temp_dir
  tmp_dirs,       \* the temporary directories that exist on disk
  returned,       \* main: the value evaluate() returned, None before
  mpc,            \* main: position of the run
  outcome,        \* main: how the run ended, None before
  evaluators,     \* concurrent evaluations: the state of each evaluator and its scanner
  class_PATTERNS  \* the class attribute SecurityScanner.PATTERNS

vars == <<tree, issues, layer_results, pc, calls, result, scanned,
          sc_issues, sc_security, sc_layer, results,
          args, temp_dir, tmp_dirs, returned, mpc, outcome,
          evaluators, class_PATTERNS>>
scanVars == <<tree, issues, layer_results, pc, calls, result, scanned>>
scoreVars == <<sc_issues, sc_security, sc_layer>>
mainVars == <<args, temp_dir, tmp_dirs, returned, mpc, outcome>>
pairVars == <<evaluators, class_PATTERNS>>
evalVars == <<results, mainVars, pairVars>>

None == <<>>
Some(v) == <<v>>

Min(a, b) == IF a <= b THEN a ELSE b
Max(a, b) == IF a >= b THEN a ELSE b

\* ------------------------------------------------------------ bounds
MaxLineLen == 4    \* atoms on the line of a one-line probe file
MaxFiles == 2      \* files of a package tree
MaxLines == 3      \* lines of the files of a package tree, in total
MaxCalls == 2      \* analyze() calls on one scanner object
MaxSevCount == 11  \* findings per severity handed to the scoring functions
MaxCriticalCount == 2  \* critical_count handed to the risk aggregator

\* ------------------------------------------------------------ registry
SEVERITIES == <<"CRITICAL", "HIGH", "MEDIUM", "LOW">>

PATTERNS ==
  [ command_injection |-> <<
      [regex |-> "os\\.system\\s*\\(",
       severity |-> "CRITICAL", description |-> "os.system() with potential user input"],
      [regex |-> "subprocess\\.(call|run|Popen).*shell\\s*=\\s*True",
       severity |-> "CRITICAL", description |-> "subprocess with shell=True"],
      [regex |-> "\\beval\\s*\\(",
       severity |-> "CRITICAL", description |-> "eval() allows arbitrary code execution"],
      [regex |-> "\\bexec\\s*\\(",
       severity |-> "CRITICAL", description |-> "exec() allows arbitrary code execution"],
      [regex |-> "__import__\\s*\\(",
       severity |-> "HIGH", description |-> "__import__() with dynamic module names"],
      [regex |-> "compile\\s*\\(",
       severity |-> "HIGH", description |-> "compile() with external code"],
      [regex |-> "\\$\\([^)]*\\$",
       severity |-> "HIGH", description |-> "Command substitution with variables"],
      [regex |-> "`[^`]*\\$",
       severity |-> "HIGH", description |-> "Backtick command substitution"],
      [regex |-> "bash\\s+-c\\s+[\"\\'].*\\$",
       severity |-> "CRITICAL", description |-> "bash -c with variable expansion"]
    >>,
    path_traversal |-> <<
      [regex |-> "\\.\\./",
       severity |-> "HIGH", description |-> "Directory traversal sequence"],
      [regex |-> "%2e%2e%2f",
       severity |-> "HIGH", description |-> "URL-encoded traversal"],
      [regex |-> "\\.\\.\\\\\\\\",
       severity |-> "HIGH", description |-> "Windows directory traversal"],
      [regex |-> "open\\s*\\([^)]*\\)",
       severity |-> "MEDIUM", description |-> "File open without validation"],
      [regex |-> "Path\\s*\\([^)]*\\)\\s*(?!\\.resolve\\(\\))",
       severity |-> "MEDIUM", description |-> "Path without resolve()"]
    >>,
    arbitrary_file_ops |-> <<
      [regex |-> "shutil\\.(copy|move|rmtree)",
       severity |-> "HIGH", description |-> "File operations without validation"],
      [regex |-> "os\\.(remove|unlink|rmdir)",
       severity |-> "MEDIUM", description |-> "File deletion without checks"],
      [regex |-> "open\\s*\\([^)]*[,\\s]+[\"\\']w[\"\\']",
       severity |-> "MEDIUM", description |-> "File write without validation"]
    >>,
    privilege_escalation |-> <<
      [regex |-> "\\bsudo\\b",
       severity |-> "CRITICAL", description |-> "Privilege elevation with sudo"],
      [regex |-> "\\bsu\\b(?!\\w)",
       severity |-> "CRITICAL", description |-> "Switching to superuser"],
      [regex |-> "os\\.setuid",
       severity |-> "CRITICAL", description |-> "Changing user ID"],
      [regex |-> "os\\.chmod\\s*\\([^)]*0o777",
       severity |-> "HIGH", description |-> "Setting world-writable permissions"],
      [regex |-> "runas\\s*\\(",
       severity |-> "CRITICAL", description |-> "Windows privilege elevation"]
    >>,
    env_var_manipulation |-> <<
      [regex |-> "os\\.environ\\s*\\[\\s*[\"\\']PATH[\"\\']",
       severity |-> "HIGH", description |-> "Modifying PATH environment variable"],
      [regex |-> "os\\.environ\\s*\\[\\s*[\"\\']LD_PRELOAD[\"\\']",
       severity |-> "CRITICAL", description |-> "Setting LD_PRELOAD"],
      [regex |-> "os\\.environ\\s*\\[\\s*[\"\\']PYTHONPATH[\"\\']",
       severity |-> "HIGH", description |-> "Modifying PYTHONPATH"]
    >>,
    dos_patterns |-> <<
      [regex |-> "while\\s+True\\s*:",
       severity |-> "MEDIUM", description |-> "Infinite loop without timeout"],
      [regex |-> "def\\s+\\w+\\s*\\([^)]*\\)\\s*:.*\\1\\s*\\(",
       severity |-> "HIGH", description |-> "Potential recursive call"],
      [regex |-> "for\\s+\\w+\\s+in\\s+range\\s*\\(\\s*[0-9]{7,}",
       severity |-> "MEDIUM", description |-> "Very large iteration"]
    >>,
    information_disclosure |-> <<
      [regex |-> "print\\s*\\(.*(?:api[_-]?key|password|token|secret)",
       severity |-> "MEDIUM", description |-> "Logging sensitive data"],
      [regex |-> "logging\\..*\\(.*(?:api[_-]?key|password|token|secret)",
       severity |-> "MEDIUM", description |-> "Logging credentials"],
      [regex |-> "traceback\\.print_exc\\s*\\(\\)",
       severity |-> "LOW", description |-> "Exposing stack traces"]
    >>,
    insecure_deserialization |-> <<
      [regex |-> "pickle\\.loads\\s*\\(",
       severity |-> "HIGH", description |-> "Unsafe pickle deserialization"],
      [regex |-> "yaml\\.load\\s*\\([^)]*\\)(?!.*Loader\\s*=)",
       severity |-> "HIGH", description |-> "yaml.load without SafeLoader"],
      [regex |-> "marshal\\.loads\\s*\\(",
       severity |-> "HIGH", description |-> "Unsafe marshal deserialization"]
    >>,
    hardcoded_credentials |-> <<
      [regex |-> "(?:api[_-]?key|password|token|secret)\\s*=\\s*[\"\\'][^\"\\']{8,}[\"\\']",
       severity |-> "HIGH", description |-> "Hardcoded credentials"],
      [regex |-> "(?:sk_live|pk_live)_[a-zA-Z0-9]{20,}",
       severity |-> "HIGH", description |-> "Hardcoded API key pattern"],
      [regex |-> "Bearer\\s+[a-zA-Z0-9_-]{20,}",
       severity |-> "HIGH", description |-> "Hardcoded bearer token"]
    >>,
    weak_crypto |-> <<
      [regex |-> "hashlib\\.md5\\s*\\(",
       severity |-> "MEDIUM", description |-> "Weak hashing algorithm MD5"],
      [regex |-> "hashlib\\.sha1\\s*\\(",
       severity |-> "MEDIUM", description |-> "Weak hashing algorithm SHA1"],
      [regex |-> "\\brandom\\.(?:randint|choice|random)\\s*\\(",
       severity |-> "LOW", description |-> "Insecure random for security"]
    >>,
    ssrf |-> <<
      [regex |-> "requests\\.(?:get|post)\\s*\\([^)]*\\)",
       severity |-> "MEDIUM", description |-> "HTTP request without URL validation"],
      [regex |-> "urllib\\.request\\.urlopen\\s*\\(",
       severity |-> "MEDIUM", description |-> "URL fetch without validation"],
      [regex |-> "(?:localhost|127\\.0\\.0\\.1|169\\.254\\.169\\.254)",
       severity |-> "HIGH", description |-> "Internal network access"]
    >>,
    xss_output |-> <<
      [regex |-> "<script[^>]*>",
       severity |-> "MEDIUM", description |-> "Script tag in output"],
      [regex |-> "javascript:",
       severity |-> "MEDIUM", description |-> "JavaScript protocol in URL"],
      [regex |-> "onerror\\s*=",
       severity |-> "MEDIUM", description |-> "Event handler in output"]
    >> ]


CATEGORIES == DOMAIN PATTERNS

\* category.replace('_', ' ').title()
CategoryTitle(category) ==
  CASE category = "command_injection" -> "Command Injection"
    [] category = "path_traversal" -> "Path Traversal"
    [] category = "arbitrary_file_ops" -> "Arbitrary File Ops"
    [] category = "privilege_escalation" -> "Privilege Escalation"
    [] category = "env_var_manipulation" -> "Env Var Manipulation"
    [] category = "dos_patterns" -> "Dos Patterns"
    [] category = "information_disclosure" -> "Information Disclosure"
    [] category = "insecure_deserialization" -> "Insecure Deserialization"
    [] category = "hardcoded_credentials" -> "Hardcoded Credentials"
    [] category = "weak_crypto" -> "Weak Crypto"
    [] category = "ssrf" -> "Ssrf"
    [] category = "xss_output" -> "Xss Output"

\* ------------------------------------------------------------ lines and regular expressions
SQ == "'"
DQ == "\""
NOQA == "# noqa"
NOQA_UPPER == "# NOQA"
IGNORE == "# evaluator: ignore"
OS_SYSTEM == "os.system(cmd)"
OS_SYSTEM_USER_INPUT == "os.system(user_input)"
SUDO == "sudo"
PICKLE == "pickle.loads(data)"
WHILE_TRUE == "while True:"
MD5 == "hashlib.md5(x)"
PRINT_EXC == "traceback.print_exc()"

\* the pairs <<regular expression, atom>> for which re.search(regex, atom,
\* re.IGNORECASE) finds a match (at offset 0 of the atom); no expression of
\* the registry matches across two atoms of this alphabet
AtomMatches ==
  { <<PATTERNS.command_injection[1].regex, OS_SYSTEM>>,
    <<PATTERNS.command_injection[1].regex, OS_SYSTEM_USER_INPUT>>,
    <<PATTERNS.privilege_escalation[1].regex, SUDO>>,
    <<PATTERNS.insecure_deserialization[1].regex, PICKLE>>,
    <<PATTERNS.dos_patterns[1].regex, WHILE_TRUE>>,
    <<PATTERNS.weak_crypto[1].regex, MD5>>,
    <<PATTERNS.information_disclosure[3].regex, PRINT_EXC>> }

\* re.compile raises re.error for an expression that refers to a group it
\* does not define: the second dos_patterns expression uses \1 without a group
Compiles(regex) == regex # PATTERNS.dos_patterns[2].regex

\* match.start() of re.search(regex, line, re.IGNORECASE) as the index of the
\* leftmost matching atom, 0 when re.search returns None
re_search(regex, line) ==
  LET hits == {k \in 1..Len(line) : <<regex, line[k]>> \in AtomMatches}
  IN IF hits = {} THEN 0 ELSE CHOOSE k \in hits : \A j \in hits : k <= j

\* before_match.count(q) for line[:match.start()]
CountBefore(line, m, q) == Cardinality({k \in 1..(m - 1) : line[k] = q})

\* the marker test made without regard to case, as the expressions are matched
HasIgnoreMarkerIgnoreCase(line) ==
  \E k \in 1..Len(line) : line[k] \in {IGNORE, NOQA, NOQA_UPPER}

\* '# evaluator: ignore' in line or '# noqa' in line (substring tests, which
\* tell upper case from lower case)
HasIgnoreMarker(line) == \E k \in 1..Len(line) : line[k] \in {IGNORE, NOQA}

\* a parity test that counts the single quotes only
InsideStringSingleQuotes(line, m) == CountBefore(line, m, SQ) % 2 = 1

\* (single_quotes % 2 == 1) or (double_quotes % 2 == 1) for the match at m
InsideString(line, m) ==
  \/ CountBefore(line, m, SQ) % 2 = 1
  \/ CountBefore(line, m, DQ) % 2 = 1

\* ------------------------------------------------------------ files
excluded_dirs == {"node_modules", "venv", ".venv", "__pycache__",
                  ".git", "dist", "build", ".eggs", ".tox"}
excluded_files == {"security_scanner.py", "quality_checker.py"}

\* the segments of the path rglob yields for a file: those of skill_dir,
\* then the directories below it, then the file name
script_path(f) == f.root \o f.dirs \o <<f.name>>

\* Path.relative_to(other).parts: the segments after those of other
relative_to(path, other) == SubSeq(path, Len(other) + 1, Len(path))

\* the segments of the absolute path
PathPartsAbsolute(f) ==
  {script_path(f)[k] : k \in 1..Len(script_path(f))}

\* set(script_path.relative_to(self.skill_dir).parts)
PathParts(f) ==
  LET parts == relative_to(script_path(f), f.root)
  IN {parts[k] : k \in 1..Len(parts)}

SelectExt(t, ext) == SelectSeq(t, LAMBDA f : f.ext = ext)

\* rglob('*.py') + rglob('*.sh') + rglob('*.bash')
ScriptFiles(t) == SelectExt(t, "py") \o SelectExt(t, "sh") \o SelectExt(t, "bash")

SecurityIssue(severity, category, description, f, line_num) ==
  [severity |-> severity,
   category |-> CategoryTitle(category),
   description |-> description,
   file_path |-> f.dirs \o <<f.name>>,
   line_number |-> line_num]

\* the loop over the lines and the patterns of one file, from line ln and
\* pattern k on, acc being the findings appended so far; an exception
\* leaves the loop for the except clause, which keeps what was appended
RECURSIVE ScanFrom(_, _, _, _, _)
ScanFrom(f, category, ln, k, acc) ==
  LET patterns == IF category \in DOMAIN PATTERNS THEN PATTERNS[category] ELSE <<>>
  IN IF ln > Len(f.lines) THEN acc
     ELSE IF k > Len(patterns) THEN ScanFrom(f, category, ln + 1, 1, acc)
     ELSE LET p == patterns[k]
              line == f.lines[ln]
          IN IF ~Compiles(p.regex) THEN acc
             ELSE LET m == re_search(p.regex, line)
                  IN IF m = 0 THEN ScanFrom(f, category, ln, k + 1, acc)
                     ELSE IF HasIgnoreMarker(line)
                       THEN ScanFrom(f, category, ln, k + 1, acc)
                     ELSE IF InsideString(line, m)
                       THEN ScanFrom(f, category, ln, k + 1, acc)
                     ELSE ScanFrom(f, category, ln, k + 1,
                            Append(acc, SecurityIssue(p.severity, category,
                                                      p.description, f, ln)))

\* the loop body without the two exclusions
ScanFileNoExclusions(f, category) ==
  IF ~f.readable THEN <<>>
  ELSE ScanFrom(f, category, 1, 1, <<>>)

\* the body of the loop over script_files for one file
ScanFile(f, category) ==
  IF PathParts(f) \cap excluded_dirs # {} THEN <<>>
  ELSE IF f.name \in excluded_files THEN <<>>
  ELSE IF ~f.readable THEN <<>>
  ELSE ScanFrom(f, category, 1, 1, <<>>)

\* a read error that leaves the loop over script_files
RECURSIVE ScanFilesStopAtUnreadable(_, _)
ScanFilesStopAtUnreadable(files, category) ==
  IF files = <<>> THEN <<>>
  ELSE IF ~Head(files).readable THEN <<>>
  ELSE ScanFile(Head(files), category)
         \o ScanFilesStopAtUnreadable(Tail(files), category)

RECURSIVE ScanFiles(_, _)
ScanFiles(files, category) ==
  IF files = <<>> THEN <<>>
  ELSE ScanFile(Head(files), category) \o ScanFiles(Tail(files), category)

_scan_patterns(t, category) == ScanFiles(ScriptFiles(t), category)

\* ------------------------------------------------------------ scoring
CountSeverity(iss, sev) == Cardinality({k \in 1..Len(iss) : iss[k].severity = sev})

\* a CRITICAL finding deducting 25
RECURSIVE DeductionsCritical25(_)
DeductionsCritical25(iss) ==
  IF iss = <<>> THEN 0
  ELSE DeductionsCritical25(Tail(iss)) +
       (CASE Head(iss).severity = "CRITICAL" -> 25
          [] Head(iss).severity = "HIGH" -> 20
          [] Head(iss).severity = "MEDIUM" -> 10
          [] Head(iss).severity = "LOW" -> 5
          [] OTHER -> 0)

RECURSIVE Deductions(_)
Deductions(iss) ==
  IF iss = <<>> THEN 0
  ELSE Deductions(Tail(iss)) +
       (CASE Head(iss).severity = "CRITICAL" -> 40
          [] Head(iss).severity = "HIGH" -> 20
          [] Head(iss).severity = "MEDIUM" -> 10
          [] Head(iss).severity = "LOW" -> 5
          [] OTHER -> 0)

\* the layer score without its floor
LayerScoreNoFloor(iss) ==
  IF iss = <<>> THEN 100 ELSE 100 - Deductions(iss)

_calculate_layer_score(iss) ==
  IF iss = <<>> THEN 100 ELSE Max(0, 100 - Deductions(iss))

\* the CRITICAL tier capped at 75
CalculateSecurityScoreCritical75(iss) ==
  IF iss = <<>> THEN 100
  ELSE LET critical == CountSeverity(iss, "CRITICAL")
           high == CountSeverity(iss, "HIGH")
           medium == CountSeverity(iss, "MEDIUM")
           low == CountSeverity(iss, "LOW")
       IN IF critical > 0 THEN Min(75, 75 - (critical * 5))
          ELSE IF high > 0 THEN Min(50, 50 - (high * 5))
          ELSE IF medium > 0 THEN Min(75, 75 - (medium * 3))
          ELSE IF low > 0 THEN Min(90, 90 - (low * 2))
          ELSE 100

\* the HIGH tier starting at 55
CalculateSecurityScoreHigh55(iss) ==
  IF iss = <<>> THEN 100
  ELSE LET critical == CountSeverity(iss, "CRITICAL")
           high == CountSeverity(iss, "HIGH")
           medium == CountSeverity(iss, "MEDIUM")
           low == CountSeverity(iss, "LOW")
       IN IF critical > 0 THEN Min(25, 25 - (critical * 5))
          ELSE IF high > 0 THEN Min(50, 55 - (high * 5))
          ELSE IF medium > 0 THEN Min(75, 75 - (medium * 3))
          ELSE IF low > 0 THEN Min(90, 90 - (low * 2))
          ELSE 100

calculate_security_score(iss) ==
  IF iss = <<>> THEN 100
  ELSE LET critical == CountSeverity(iss, "CRITICAL")
           high == CountSeverity(iss, "HIGH")
           medium == CountSeverity(iss, "MEDIUM")
           low == CountSeverity(iss, "LOW")
       IN IF critical > 0 THEN Min(25, 25 - (critical * 5))
          ELSE IF high > 0 THEN Min(50, 50 - (high * 5))
          ELSE IF medium > 0 THEN Min(75, 75 - (medium * 3))
          ELSE IF low > 0 THEN Min(90, 90 - (low * 2))
          ELSE 100

\* ------------------------------------------------------------ the five layers
Layer1Categories == <<"command_injection", "path_traversal", "arbitrary_file_ops">>
Layer2Categories == <<"privilege_escalation", "env_var_manipulation", "insecure_deserialization">>
Layer3Categories == <<"xss_output", "information_disclosure">>
Layer4Categories == <<"hardcoded_credentials", "weak_crypto">>
\* layer 5 scanning information_disclosure again instead of ssrf
Layer5CategoriesOverlap == <<"dos_patterns", "information_disclosure">>

Layer5Categories == <<"dos_patterns", "ssrf">>

Layer1Name == "Layer 1: Input Validation & Sanitization"
Layer2Name == "Layer 2: Execution Environment Control"
Layer3Name == "Layer 3: Output Sanitization"
Layer4Name == "Layer 4: Privilege Management"
Layer5Name == "Layer 5: Self-Protection"

\* layer_issues after the extend() calls of a layer method
RECURSIVE LayerIssues(_, _)
LayerIssues(t, cats) ==
  IF cats = <<>> THEN <<>>
  ELSE _scan_patterns(t, Head(cats)) \o LayerIssues(t, Tail(cats))

\* a layer that only CRITICAL findings fail
LayerPassedCriticalOnly(layer_issues) ==
  \A k \in 1..Len(layer_issues) : layer_issues[k].severity # "CRITICAL"

\* passed = len([i for i in layer_issues if i.severity in ['CRITICAL', 'HIGH']]) == 0
LayerPassed(layer_issues) ==
  Cardinality({k \in 1..Len(layer_issues) :
                 layer_issues[k].severity \in {"CRITICAL", "HIGH"}}) = 0

LayerResult(layer_name, layer_issues) ==
  [layer_name |-> layer_name,
   passed |-> LayerPassed(layer_issues),
   issues |-> layer_issues,
   score |-> _calculate_layer_score(layer_issues)]

_issue_to_dict(issue) ==
  [severity |-> issue.severity,
   category |-> issue.category,
   description |-> issue.description,
   file_path |-> issue.file_path,
   line_number |-> issue.line_number]

_layer_to_dict(layer) ==
  [name |-> layer.layer_name,
   passed |-> layer.passed,
   score |-> layer.score,
   issue_count |-> Len(layer.issues)]

\* the dict analyze() returns
AnalyzeResult(iss, layers) ==
  [score |-> calculate_security_score(iss),
   critical_count |-> Len(SelectSeq(iss, LAMBDA i : i.severity = "CRITICAL")),
   high_count |-> Len(SelectSeq(iss, LAMBDA i : i.severity = "HIGH")),
   medium_count |-> Len(SelectSeq(iss, LAMBDA i : i.severity = "MEDIUM")),
   low_count |-> Len(SelectSeq(iss, LAMBDA i : i.severity = "LOW")),
   issues |-> [k \in 1..Len(iss) |-> _issue_to_dict(iss[k])],
   layers |-> [k \in 1..Len(layers) |-> _layer_to_dict(layers[k])]]

\* ------------------------------------------------------------ double arithmetic
\* A Python float of the risk aggregator is [neg, mag]: its value is
\* -mag / 2^55 or mag / 2^55, mag being a natural number written as five
\* digits of base 2^16, lowest first.  All values that occur are multiples
\* of 2^-55 below 2^13, so an IEEE-754 double operation is the exact
\* operation followed by rounding to 53 significant bits, ties to even.
Limb == 2 ^ 16

LZero == <<0, 0, 0, 0, 0>>

\* 1.0, 0.35, 0.25 and 0.20 as doubles, in units of 2^-55:
\* 0.35 = 0x2CCCCCCCCCCCCC / 2^55, 0.2 = 0x1999999999999A / 2^55
LOne == <<0, 0, 0, 128, 0>>
W_SECURITY == <<52428, 52428, 52428, 44, 0>>
W_QUALITY == <<0, 0, 0, 32, 0>>
W_UTILITY == <<39322, 39321, 39321, 25, 0>>
W_COMPLIANCE == <<39322, 39321, 39321, 25, 0>>

Abs(n) == IF n < 0 THEN -n ELSE n

RECURSIVE LCarry(_, _)
LCarry(x, carry) ==
  IF x = <<>> THEN <<>>
  ELSE LET t == Head(x) + carry
       IN <<t % Limb>> \o LCarry(Tail(x), t \div Limb)

LAdd(x, y) == LCarry([i \in 1..5 |-> x[i] + y[i]], 0)

\* x * k for a natural number k < 2^14
LMulSmall(x, k) == LCarry([i \in 1..5 |-> x[i] * k], 0)

RECURSIVE LBorrow(_, _, _)
LBorrow(x, y, borrow) ==
  IF x = <<>> THEN <<>>
  ELSE LET t == Head(x) - Head(y) - borrow
       IN IF t < 0 THEN <<t + Limb>> \o LBorrow(Tail(x), Tail(y), 1)
          ELSE <<t>> \o LBorrow(Tail(x), Tail(y), 0)

\* x - y for x >= y
LSub(x, y) == LBorrow(x, y, 0)

RECURSIVE LLessFrom(_, _, _)
LLessFrom(x, y, i) ==
  IF i = 0 THEN FALSE
  ELSE IF x[i] # y[i] THEN x[i] < y[i]
  ELSE LLessFrom(x, y, i - 1)

LLess(x, y) == LLessFrom(x, y, 5)

RECURSIVE BitLen(_)
BitLen(v) == IF v = 0 THEN 0 ELSE 1 + BitLen(v \div 2)

LBitLen(x) ==
  IF x = LZero THEN 0
  ELSE LET top == CHOOSE i \in 1..5 : x[i] # 0 /\ \A j \in (i + 1)..5 : x[j] = 0
       IN 16 * (top - 1) + BitLen(x[top])

\* round to 53 significant bits, ties to even
RoundToDouble(x) ==
  LET len == LBitLen(x)
  IN IF len <= 53 THEN x
     ELSE LET unit == 2 ^ (len - 53)
              rem == x[1] % unit
              down == [x EXCEPT ![1] = x[1] - rem]
              odd == (x[1] \div unit) % 2 = 1
          IN IF 2 * rem > unit \/ (2 * rem = unit /\ odd)
               THEN LAdd(down, [LZero EXCEPT ![1] = unit])
               ELSE down

\* the exact sum of two signed magnitudes
SignedAdd(a, b) ==
  IF a.neg = b.neg THEN [neg |-> a.neg, mag |-> LAdd(a.mag, b.mag)]
  ELSE IF LLess(a.mag, b.mag) THEN [neg |-> b.neg, mag |-> LSub(b.mag, a.mag)]
  ELSE [neg |-> a.neg /\ a.mag # b.mag, mag |-> LSub(a.mag, b.mag)]

\* float(n) for an integer n
FromInt(n) == [neg |-> n < 0, mag |-> LMulSmall(LOne, Abs(n))]

\* n * w for an integer-valued score n and a weight w
FMul(n, w) == [neg |-> n < 0, mag |-> RoundToDouble(LMulSmall(w, Abs(n)))]

\* a + b
FAdd(a, b) ==
  LET e == SignedAdd(a, b) IN [neg |-> e.neg, mag |-> RoundToDouble(e.mag)]

\* a < b
FLess(a, b) ==
  IF a.neg # b.neg THEN a.neg /\ (a.mag # LZero \/ b.mag # LZero)
  ELSE IF a.neg THEN LLess(b.mag, a.mag)
  ELSE LLess(a.mag, b.mag)

\* a >= n for an integer n
FGe(a, n) == ~FLess(a, FromInt(n))

\* round(a, 1) in tenths: the decimal nearest to the exact value of a,
\* ties to even
Round1(a) ==
  LET x == LMulSmall(a.mag, 10)
      whole == (x[4] \div 128) + x[5] * 512
      rem == x[4] % 128
      low == x[1] # 0 \/ x[2] # 0 \/ x[3] # 0
      up == rem > 64 \/ (rem = 64 /\ (low \/ whole % 2 = 1))
      tenths == IF up THEN whole + 1 ELSE whole
  IN IF a.neg THEN -tenths ELSE tenths

\* ------------------------------------------------------------ the risk aggregator
Recommendation(icon, text) == [icon |-> icon, text |-> text]

\* .get() with a key the security results do not have
GetCriticalCountWrongKey(security) ==
  IF "critical" \in DOMAIN security THEN security.critical ELSE 0

\* self.results['security'].get('critical_count', 0)
GetCriticalCount(security) ==
  IF "critical_count" \in DOMAIN security THEN security.critical_count ELSE 0

\* the weights of security and quality exchanged
WeightedOverallSwapped(security_score, quality_score, utility_score, compliance_score) ==
  FAdd(FAdd(FAdd(FMul(security_score, W_QUALITY),
                 FMul(quality_score, W_SECURITY)),
            FMul(utility_score, W_UTILITY)),
       FMul(compliance_score, W_COMPLIANCE))

\* overall = security*0.35 + quality*0.25 + utility*0.20 + compliance*0.20
WeightedOverall(security_score, quality_score, utility_score, compliance_score) ==
  FAdd(FAdd(FAdd(FMul(security_score, W_SECURITY),
                 FMul(quality_score, W_QUALITY)),
            FMul(utility_score, W_UTILITY)),
       FMul(compliance_score, W_COMPLIANCE))

\* the overrides tried after the bands of the weighted overall
DetermineRecommendationBandsFirst(res, overall, security, compliance) ==
  IF FGe(overall, 90) THEN Recommendation("check", "HIGHLY RECOMMENDED")
  ELSE IF FGe(overall, 75) THEN Recommendation("check", "RECOMMENDED")
  ELSE IF security < 50
    THEN Recommendation("cross", "DO NOT INSTALL - Critical security risks")
  ELSE IF GetCriticalCount(res.security) > 0
    THEN Recommendation("cross", "DO NOT INSTALL - Critical vulnerabilities found")
  ELSE IF compliance < 40
    THEN Recommendation("warning", "NOT RECOMMENDED - Fundamental compliance issues")
  ELSE IF FGe(overall, 60) THEN Recommendation("warning", "USE WITH CAUTION")
  ELSE IF FGe(overall, 40) THEN Recommendation("warning", "NOT RECOMMENDED")
  ELSE Recommendation("cross", "DO NOT INSTALL")

\* the compliance override taken at compliance 40 as well
DetermineRecommendationComplianceLe(res, overall, security, compliance) ==
  IF security < 50
    THEN Recommendation("cross", "DO NOT INSTALL - Critical security risks")
  ELSE IF GetCriticalCount(res.security) > 0
    THEN Recommendation("cross", "DO NOT INSTALL - Critical vulnerabilities found")
  ELSE IF compliance <= 40
    THEN Recommendation("warning", "NOT RECOMMENDED - Fundamental compliance issues")
  ELSE IF FGe(overall, 90) THEN Recommendation("check", "HIGHLY RECOMMENDED")
  ELSE IF FGe(overall, 75) THEN Recommendation("check", "RECOMMENDED")
  ELSE IF FGe(overall, 60) THEN Recommendation("warning", "USE WITH CAUTION")
  ELSE IF FGe(overall, 40) THEN Recommendation("warning", "NOT RECOMMENDED")
  ELSE Recommendation("cross", "DO NOT INSTALL")

_determine_recommendation(res, overall, security, compliance) ==
  IF security < 50
    THEN Recommendation("cross", "DO NOT INSTALL - Critical security risks")
  ELSE IF GetCriticalCount(res.security) > 0
    THEN Recommendation("cross", "DO NOT INSTALL - Critical vulnerabilities found")
  ELSE IF compliance < 40
    THEN Recommendation("warning", "NOT RECOMMENDED - Fundamental compliance issues")
  ELSE IF FGe(overall, 90) THEN Recommendation("check", "HIGHLY RECOMMENDED")
  ELSE IF FGe(overall, 75) THEN Recommendation("check", "RECOMMENDED")
  ELSE IF FGe(overall, 60) THEN Recommendation("warning", "USE WITH CAUTION")
  ELSE IF FGe(overall, 40) THEN Recommendation("warning", "NOT RECOMMENDED")
  ELSE Recommendation("cross", "DO NOT INSTALL")

_determine_risk_level(security_score) ==
  IF security_score >= 90 THEN "Low"
  ELSE IF security_score >= 75 THEN "Medium"
  ELSE IF security_score >= 50 THEN "High"
  ELSE "Critical"

\* the risk level taken from the compliance score instead of the security score
CalculateOverallScoreRiskOfCompliance(res) ==
  LET security_score == res.security.score
      quality_score == res.quality.score
      utility_score == res.utility.score
      compliance_score == res.compliance.score
      overall == WeightedOverall(security_score, quality_score,
                                 utility_score, compliance_score)
  IN [overall_score |-> Round1(overall),
      recommendation |-> _determine_recommendation(res, overall, security_score,
                                                   compliance_score),
      risk_level |-> _determine_risk_level(compliance_score),
      breakdown |-> [security |-> security_score, quality |-> quality_score,
                     utility |-> utility_score, compliance |-> compliance_score]]

\* the dict calculate_overall_score returns; overall_score is in tenths
calculate_overall_score(res) ==
  LET security_score == res.security.score
      quality_score == res.quality.score
      utility_score == res.utility.score
      compliance_score == res.compliance.score
      overall == WeightedOverall(security_score, quality_score,
                                 utility_score, compliance_score)
  IN [overall_score |-> Round1(overall),
      recommendation |-> _determine_recommendation(res, overall, security_score,
                                                   compliance_score),
      risk_level |-> _determine_risk_level(security_score),
      breakdown |-> [security |-> security_score, quality |-> quality_score,
                     utility |-> utility_score, compliance |-> compliance_score]]

\* ------------------------------------------------------------ the inputs
SeqUpTo(S, n) == UNION {[1..k -> S] : k \in 0..n}

File(path, readable, lines) ==
  [root |-> path.root, dirs |-> path.dirs, name |-> path.name, ext |-> path.ext,
   readable |-> readable, lines |-> lines]

\* one-line probe files: every line of at most MaxLineLen atoms in a file the
\* scan reads, together with lines that carry the second marker or a marker
\* in upper case; every line of at most one atom in a file the scan excludes
LineAtoms == {SQ, DQ, NOQA, OS_SYSTEM, PRINT_EXC}
MarkerLines ==
  { <<OS_SYSTEM, IGNORE>>, <<IGNORE, OS_SYSTEM>>, <<SQ, IGNORE, SQ, OS_SYSTEM>>,
    <<OS_SYSTEM, NOQA_UPPER>>, <<NOQA_UPPER, OS_SYSTEM>>, <<PRINT_EXC, NOQA_UPPER>> }
SkillDir == <<"home", "skills", "pkg">>
ProbePath == [root |-> SkillDir, dirs |-> <<>>, name |-> "a.py", ext |-> "py"]
ExcludedPaths ==
  { [root |-> SkillDir, dirs |-> <<"venv">>, name |-> "a.py", ext |-> "py"],
    [root |-> SkillDir, dirs |-> <<>>, name |-> "quality_checker.py", ext |-> "py"] }
ProbeTrees ==
  { <<File(ProbePath, TRUE, <<l>>)>> :
      l \in SeqUpTo(LineAtoms, MaxLineLen) \cup MarkerLines }
    \cup { <<File(p, TRUE, <<l>>)>> : p \in ExcludedPaths, l \in SeqUpTo(LineAtoms, 1) }

\* package trees: at most MaxFiles files holding at most MaxLines one-atom
\* lines between them; split('\n') gives a readable file at least one line,
\* and an unreadable file has no content the program can see
PackageLines == {<<PICKLE>>, <<WHILE_TRUE>>, <<PRINT_EXC>>}
PackagePaths ==
  << [root |-> SkillDir, dirs |-> <<"scripts">>, name |-> "run.sh", ext |-> "sh"],
     [root |-> SkillDir, dirs |-> <<"scripts">>, name |-> "main.py", ext |-> "py"],
     [root |-> SkillDir, dirs |-> <<>>, name |-> "setup.bash", ext |-> "bash"] >>
PackageFiles(k, m) ==
  IF m = 0 THEN { File(PackagePaths[k], FALSE, <<>>) }
  ELSE { File(PackagePaths[k], TRUE, ls) : ls \in [1..m -> PackageLines] }
RECURSIVE TreesOfLen(_, _)
TreesOfLen(n, budget) ==
  IF n = 0 THEN {<<>>}
  ELSE UNION { {Append(t, f) : t \in TreesOfLen(n - 1, budget - m),
                               f \in PackageFiles(n, m)} : m \in 0..budget }
PackageTrees == UNION {TreesOfLen(n, MaxLines) : n \in 0..MaxFiles}

\* the example of the specification: one script, one line
ExampleTree == <<File(ProbePath, TRUE, <<<<OS_SYSTEM_USER_INPUT>>>>)>>

\* trees that probe the walk: a skill directory below a directory named
\* build, a file that is no script, a script two levels below an excluded
\* directory, a script whose name is an excluded directory name plus a
\* suffix, and an unreadable script next to a readable one
BuildDir == <<"home", "build", "pkg">>
WalkTrees ==
  { <<File([root |-> BuildDir, dirs |-> <<"scripts">>, name |-> "a.py", ext |-> "py"],
           TRUE, <<<<OS_SYSTEM>>>>)>>,
    <<File([root |-> SkillDir, dirs |-> <<>>, name |-> "a.txt", ext |-> "txt"],
           TRUE, <<<<OS_SYSTEM>>>>),
      File([root |-> SkillDir, dirs |-> <<>>, name |-> "dist.sh", ext |-> "sh"],
           TRUE, <<<<PICKLE>>>>)>>,
    <<File([root |-> SkillDir, dirs |-> <<"lib", "node_modules", "x">>,
            name |-> "a.py", ext |-> "py"], TRUE, <<<<OS_SYSTEM>>>>),
      File([root |-> SkillDir, dirs |-> <<"lib">>, name |-> "security_scanner.py",
            ext |-> "py"], TRUE, <<<<OS_SYSTEM>>>>)>>,
    <<File([root |-> BuildDir, dirs |-> <<>>, name |-> "a.py", ext |-> "py"],
           FALSE, <<>>),
      File([root |-> BuildDir, dirs |-> <<>>, name |-> "b.bash", ext |-> "bash"],
           TRUE, <<<<PRINT_EXC>>>>)>> }

Trees == ProbeTrees \cup PackageTrees \cup {ExampleTree} \cup WalkTrees

\* the findings handed to the pure scoring functions: c CRITICAL, h HIGH,
\* m MEDIUM and l LOW findings
Finding(sev, k) ==
  SecurityIssue(sev, "command_injection", "finding", PackagePaths[2], k)
Findings(c, h, m, l) ==
  [k \in 1..c |-> Finding("CRITICAL", k)] \o [k \in 1..h |-> Finding("HIGH", k)]
    \o [k \in 1..m |-> Finding("MEDIUM", k)] \o [k \in 1..l |-> Finding("LOW", k)]

\* self.results = {} of SkillEvaluator.__init__
NoResults == <<>>

\* no command-line run is under way
NoArgs == <<>>
MainIdle ==
  /\ args = NoArgs
  /\ temp_dir = None
  /\ tmp_dirs = {}
  /\ returned = None
  /\ mpc = "idle"
  /\ outcome = None

\* no concurrent evaluations are under way
PairIdle ==
  /\ evaluators = <<>>
  /\ class_PATTERNS = PATTERNS

\* ------------------------------------------------------------ the scanner
\* SecurityScanner.__init__
NewScanner ==
  /\ pc = "ready"
  /\ issues' = <<>>
  /\ layer_results' = <<>>
  /\ calls' = 0
  /\ result' = None
  /\ scanned' = <<>>
  /\ UNCHANGED <<tree, pc, scoreVars, evalVars>>

\* a layer method that assigns its findings to self.issues instead of
\* extending it
RunLayerAssign(at, n, layer_name, cats, next) ==
  /\ pc = at
  /\ scanned' = (IF n = 1 THEN <<>> ELSE scanned) \o [k \in 1..Len(cats) |-> <<n, cats[k]>>]
  /\ LET lr == LayerResult(layer_name, LayerIssues(tree, cats))
     IN /\ layer_results' = Append(layer_results, lr)
        /\ issues' = lr.issues
  /\ pc' = next
  /\ UNCHANGED <<tree, calls, result, scoreVars, evalVars>>

\* a layer method: scan the layer's categories, append the layer result,
\* extend self.issues
RunLayer(at, n, layer_name, cats, next) ==
  /\ pc = at
  /\ scanned' = (IF n = 1 THEN <<>> ELSE scanned) \o [k \in 1..Len(cats) |-> <<n, cats[k]>>]
  /\ LET lr == LayerResult(layer_name, LayerIssues(tree, cats))
     IN /\ layer_results' = Append(layer_results, lr)
        /\ issues' = issues \o lr.issues
  /\ pc' = next
  /\ UNCHANGED <<tree, calls, result, scoreVars, evalVars>>

\* analyze() is entered with its first layer method
analyze_layer1_input_validation ==
  /\ calls < MaxCalls
  /\ RunLayer("ready", 1, Layer1Name, Layer1Categories, "layer2")

analyze_layer2_execution_control ==
  RunLayer("layer2", 2, Layer2Name, Layer2Categories, "layer3")

analyze_layer3_output_sanitization ==
  RunLayer("layer3", 3, Layer3Name, Layer3Categories, "layer4")

analyze_layer4_privilege_management ==
  RunLayer("layer4", 4, Layer4Name, Layer4Categories, "layer5")

analyze_layer5_self_protection ==
  RunLayer("layer5", 5, Layer5Name, Layer5Categories, "score")

\* the tail of analyze(): the overall score, the counts and the returned dict
analyze_return ==
  /\ pc = "score"
  /\ result' = Some(AnalyzeResult(issues, layer_results))
  /\ calls' = calls + 1
  /\ pc' = "ready"
  /\ UNCHANGED <<tree, issues, layer_results, scanned, scoreVars, evalVars>>

Init ==
  /\ tree \in Trees
  /\ issues = <<>>
  /\ layer_results = <<>>
  /\ pc = "ready"
  /\ calls = 0
  /\ result = None
  /\ scanned = <<>>
  /\ sc_issues = <<>>
  /\ sc_security = None
  /\ sc_layer = None
  /\ results = NoResults
  /\ MainIdle
  /\ PairIdle

Next ==
  \/ NewScanner
  \/ analyze_layer1_input_validation
  \/ analyze_layer2_execution_control
  \/ analyze_layer3_output_sanitization
  \/ analyze_layer4_privilege_management
  \/ analyze_layer5_self_protection
  \/ analyze_return

Spec == Init /\ [][Next]_vars

\* ------------------------------------------------------------ the scoring functions alone
CalculateSecurityScore ==
  /\ sc_security = None
  /\ sc_security' = Some(calculate_security_score(sc_issues))
  /\ UNCHANGED <<sc_issues, sc_layer, scanVars, evalVars>>

CalculateLayerScore ==
  /\ sc_layer = None
  /\ sc_layer' = Some(_calculate_layer_score(sc_issues))
  /\ UNCHANGED <<sc_issues, sc_security, scanVars, evalVars>>

InitScore ==
  /\ \E c, h, m, l \in 0..MaxSevCount : sc_issues = Findings(c, h, m, l)
  /\ sc_security = None
  /\ sc_layer = None
  /\ tree = <<>>
  /\ issues = <<>>
  /\ layer_results = <<>>
  /\ pc = "ready"
  /\ calls = 0
  /\ result = None
  /\ scanned = <<>>
  /\ results = NoResults
  /\ MainIdle
  /\ PairIdle

NextScore == CalculateSecurityScore \/ CalculateLayerScore

SpecScore == InitScore /\ [][NextScore]_vars


\* ------------------------------------------------------------ the risk aggregator alone
\* the dimension scores handed to calculate_overall_score
SecurityScores == {-5, 20, 40, 45, 46, 49, 50, 56, 72, 75, 77, 82, 88, 90, 100}
QualityScores == {0, 40, 60, 66, 75, 82, 90, 100}
UtilityScores == {0, 2, 37, 40, 60, 75, 82, 90, 100}
ComplianceScores == {0, 35, 39, 40, 60, 75, 82, 90, 100}

\* line 221 of evaluate(): self.results['overall'] = self.calculate_overall_score()
CalculateOverallScore ==
  /\ "security" \in DOMAIN results
  /\ "overall" \notin DOMAIN results
  /\ results' = results @@ ("overall" :> calculate_overall_score(results))
  /\ UNCHANGED <<scanVars, scoreVars, mainVars, pairVars>>

InitRec ==
  /\ \E s \in SecurityScores, q \in QualityScores, u \in UtilityScores,
        c \in ComplianceScores, n \in 0..MaxCriticalCount :
       results = [security |-> [score |-> s, critical_count |-> n],
                  quality |-> [score |-> q],
                  utility |-> [score |-> u],
                  compliance |-> [score |-> c]]
  /\ tree = <<>>
  /\ issues = <<>>
  /\ layer_results = <<>>
  /\ pc = "ready"
  /\ calls = 0
  /\ result = None
  /\ scanned = <<>>
  /\ sc_issues = <<>>
  /\ sc_security = None
  /\ sc_layer = None
  /\ MainIdle
  /\ PairIdle

NextRec == CalculateOverallScore

SpecRec == InitRec /\ [][NextRec]_vars

\* ------------------------------------------------------------ the command-line run
\* the scores QualityChecker.assess() and assess_utility() return
DimensionScores == {40, 100}

\* what the checks of ComplianceValidator return for a package: the score
\* and the verdict of _validate_skill_md_exists, the score and the data of
\* _validate_yaml_frontmatter (no data comes with score 0), and the scores
\* of the six other checks
Checks(md, yaml, prog, scr, refs, assets, style, trigger) ==
  [skill_md_score |-> md[1], skill_md_valid |-> md[2],
   yaml_score |-> yaml[1], yaml_data |-> yaml[2],
   progressive_score |-> prog, scripts_score |-> scr, refs_score |-> refs,
   assets_score |-> assets, style_score |-> style, trigger_score |-> trigger]
YamlData == Some("frontmatter")
FullCompliance ==
  Checks(<<10, TRUE>>, <<20, YamlData>>, 15, 10, 10, 10, 10, 10)
ComplianceChecks ==
  { FullCompliance,
    \* SKILL.md is there and empty
    Checks(<<0, FALSE>>, <<20, YamlData>>, 15, 10, 10, 10, 10, 10),
    \* SKILL.md without frontmatter
    Checks(<<10, TRUE>>, <<0, None>>, 15, 10, 10, 10, 10, 10),
    \* 60, 43 and 42 before the adherence points
    Checks(<<10, TRUE>>, <<10, YamlData>>, 10, 5, 3, 5, 7, 5),
    Checks(<<10, TRUE>>, <<10, YamlData>>, 10, 1, 0, 0, 2, 5),
    Checks(<<10, TRUE>>, <<10, YamlData>>, 10, 0, 0, 0, 2, 5) }

\* what args.skill_path names: a .zip archive or a directory; an archive
\* that opens and extracts, or a directory that exists, is readable;
\* skill_md tells whether the skill directory holds SKILL.md; quality and utility
\* are the scores QualityChecker gives the package, compliance is what the
\* checks of ComplianceValidator return for it. A path that cannot be
\* evaluated names no package: its content is fixed
SkillPaths ==
  { [suffix |-> s, readable |-> TRUE, skill_md |-> TRUE,
     quality |-> q, utility |-> u, compliance |-> c] :
      s \in {".zip", ""}, q \in DimensionScores, u \in DimensionScores,
      c \in ComplianceChecks }
  \cup { [suffix |-> s, readable |-> r, skill_md |-> m,
          quality |-> 100, utility |-> 100, compliance |-> FullCompliance] :
           s \in {".zip", ""}, r \in BOOLEAN, m \in BOOLEAN }
Modes == {"full", "security", "pre-publish"}
Arguments == [skill_path : SkillPaths, mode : Modes, output : BOOLEAN, json : BOOLEAN]

\* the directory names tempfile.mkdtemp(prefix='skill_eval_') can return,
\* and a directory of another process
TempNames == {"skill_eval_1", "skill_eval_2"}
OtherDir == "other"

\* the scripts of the packages the runs evaluate: none, and one script with
\* a LOW, a MEDIUM, a CRITICAL finding, a HIGH next to a MEDIUM and a LOW
\* finding, and a CRITICAL next to a HIGH finding
MainScript(lines) == <<File(PackagePaths[2], TRUE, lines)>>
MainTrees ==
  { <<>>,
    MainScript(<<<<PRINT_EXC>>>>),
    MainScript(<<<<MD5>>>>),
    MainScript(<<<<OS_SYSTEM>>>>),
    MainScript(<<<<PICKLE>>, <<WHILE_TRUE>>, <<PRINT_EXC>>>>),
    MainScript(<<<<SUDO>>, <<PICKLE>>>>) }

Exception(name) == [kind |-> "exception", name |-> name]
SystemExit(code) == [kind |-> "exit", code |-> code]

\* SkillEvaluator.__exit__: remove the temporary directory if there is one
__exit__(dirs, td) ==
  IF td # None /\ td[1] \in dirs THEN dirs \ {td[1]} ELSE dirs

\* an exception or SystemExit leaves the with block of main: __exit__ runs
\* and the run ends
LeaveWith(how) ==
  /\ tmp_dirs' = __exit__(tmp_dirs, temp_dir)
  /\ outcome' = Some(how)
  /\ mpc' = "done"

\* line 282: SkillEvaluator(args.skill_path, args.mode) and its __enter__;
\* an exception inside __enter__ leaves main without __exit__ being called
__enter__ ==
  /\ mpc = "start"
  /\ IF args.skill_path.suffix = ".zip"
       THEN \E d \in TempNames \ tmp_dirs :
              /\ temp_dir' = Some(d)
              /\ tmp_dirs' = tmp_dirs \cup {d}
              /\ IF args.skill_path.readable
                   THEN mpc' = "evaluate" /\ outcome' = outcome
                   ELSE mpc' = "done" /\ outcome' = Some(Exception("BadZipFile"))
       ELSE /\ mpc' = "evaluate"
            /\ UNCHANGED <<temp_dir, tmp_dirs, outcome>>
  /\ UNCHANGED <<args, returned, results, scanVars, scoreVars, pairVars>>

\* the check made of the skill directory alone
ValidateStructureDirOnly ==
  args.skill_path.suffix = ".zip" \/ args.skill_path.readable

\* SkillEvaluator.validate_structure: an extracted archive always gives an
\* existing skill directory
validate_structure ==
  /\ (args.skill_path.suffix = ".zip" \/ args.skill_path.readable)
  /\ args.skill_path.skill_md

\* the record evaluate() returns for an invalid structure
InvalidStructure ==
  [error |-> "invalid", overall_score |-> 0,
   recommendation |-> Recommendation("cross", "INVALID SKILL STRUCTURE")]

\* run_security_analysis: the analyze() of a new SecurityScanner, its five
\* layer methods in order
run_security_analysis(t) ==
  LET l1 == LayerResult(Layer1Name, LayerIssues(t, Layer1Categories))
      l2 == LayerResult(Layer2Name, LayerIssues(t, Layer2Categories))
      l3 == LayerResult(Layer3Name, LayerIssues(t, Layer3Categories))
      l4 == LayerResult(Layer4Name, LayerIssues(t, Layer4Categories))
      l5 == LayerResult(Layer5Name, LayerIssues(t, Layer5Categories))
  IN AnalyzeResult(l1.issues \o l2.issues \o l3.issues \o l4.issues \o l5.issues,
                   <<l1, l2, l3, l4, l5>>)

\* ComplianceValidator.validate, from what its checks return (the lists of
\* violations and of standards met are left out)
validate(chk) ==
  LET score1 == 100 - (10 - chk.skill_md_score)
      score2 == score1 - (20 - chk.yaml_score)
      score8 == score2 - (15 - chk.progressive_score) - (10 - chk.scripts_score)
                  - (10 - chk.refs_score) - (10 - chk.assets_score)
                  - (10 - chk.style_score) - (10 - chk.trigger_score)
      overall_score == IF score8 >= 60 THEN 5 ELSE 2
      score9 == Max(0, score8 - (5 - overall_score))
  IN IF ~chk.skill_md_valid THEN [score |-> 0, auto_fail |-> TRUE]
     ELSE IF chk.yaml_data = None THEN [score |-> Max(0, score2), auto_fail |-> TRUE]
     ELSE [score |-> Max(0, score9), auto_fail |-> score9 < 40]

\* the mode pre-publish skipping what the mode security skips
RunAnalysesPrePublishSkips(mode, security, pkg) ==
  IF mode \in {"security", "pre-publish"}
    THEN [security |-> security,
          quality |-> [score |-> 0],
          utility |-> [score |-> 0],
          compliance |-> validate(pkg.compliance)]
  ELSE [security |-> security,
        quality |-> [score |-> pkg.quality],
        utility |-> [score |-> pkg.utility],
        compliance |-> validate(pkg.compliance)]

\* lines 200-218 of evaluate(): the analyses the mode runs on the package,
\* security being what run_security_analysis() returns
run_analyses(mode, security, pkg) ==
  IF mode = "security"
    THEN [security |-> security,
          quality |-> [score |-> 0],
          utility |-> [score |-> 0],
          compliance |-> validate(pkg.compliance)]
  ELSE IF mode = "pre-publish"
    THEN [security |-> security,
          quality |-> [score |-> pkg.quality],
          utility |-> [score |-> pkg.utility],
          compliance |-> validate(pkg.compliance)]
  ELSE [security |-> security,
        quality |-> [score |-> pkg.quality],
        utility |-> [score |-> pkg.utility],
        compliance |-> validate(pkg.compliance)]

\* lines 220-229 of evaluate(): the overall entry and the metadata
WithOverall(res, mode) ==
  res @@ ("overall" :> calculate_overall_score(res))
      @@ ("metadata" :> [evaluator_version |-> "1.0.0", mode |-> mode])

\* line 283: evaluate(); an analysis may raise
evaluate ==
  /\ mpc = "evaluate"
  /\ \/ /\ ~validate_structure
        /\ returned' = Some(InvalidStructure)
        /\ mpc' = "report"
        /\ UNCHANGED <<results, temp_dir, tmp_dirs, outcome>>
     \/ /\ validate_structure
        /\ results' = WithOverall(run_analyses(args.mode, run_security_analysis(tree),
                                               args.skill_path),
                                  args.mode)
        /\ returned' = Some(results')
        /\ mpc' = "report"
        /\ UNCHANGED <<temp_dir, tmp_dirs, outcome>>
     \/ /\ validate_structure
        /\ LeaveWith(Exception("evaluation"))
        /\ UNCHANGED <<results, returned, temp_dir>>
  /\ UNCHANGED <<args, scanVars, scoreVars, pairVars>>

\* lines 286-290: generate_report(args.output); writing the report may raise
generate_report ==
  /\ mpc = "report"
  /\ \/ /\ mpc' = "json"
        /\ UNCHANGED <<tmp_dirs, outcome>>
     \/ /\ args.output
        /\ LeaveWith(Exception("OSError"))
  /\ UNCHANGED <<args, results, returned, temp_dir, scanVars, scoreVars, pairVars>>

\* lines 293-299: the JSON results are written if asked for; writing may raise
main_save_json ==
  /\ mpc = "json"
  /\ \/ /\ mpc' = "exit"
        /\ UNCHANGED <<tmp_dirs, outcome>>
     \/ /\ args.json
        /\ LeaveWith(Exception("OSError"))
  /\ UNCHANGED <<args, results, returned, temp_dir, scanVars, scoreVars, pairVars>>

\* the recommendations that contain the cross followed by 'DO NOT INSTALL'
DoNotInstall ==
  { Recommendation("cross", "DO NOT INSTALL - Critical security risks"),
    Recommendation("cross", "DO NOT INSTALL - Critical vulnerabilities found"),
    Recommendation("cross", "DO NOT INSTALL") }

\* lines 302-307: the exit code of the recommendation; a returned record
\* without 'overall' raises KeyError
main_sys_exit ==
  /\ mpc = "exit"
  /\ LET res == returned[1]
     IN IF "overall" \notin DOMAIN res THEN LeaveWith(Exception("KeyError"))
        ELSE IF res.overall.recommendation \in DoNotInstall THEN LeaveWith(SystemExit(1))
        ELSE IF res.overall.recommendation.icon = "warning" THEN LeaveWith(SystemExit(2))
        ELSE LeaveWith(SystemExit(0))
  /\ UNCHANGED <<args, results, returned, temp_dir, scanVars, scoreVars, pairVars>>

InitMain ==
  /\ args \in Arguments
  /\ temp_dir = None
  /\ tmp_dirs \in {{}, {OtherDir}}
  /\ returned = None
  /\ mpc = "start"
  /\ outcome = None
  /\ results = NoResults
  /\ tree \in (IF args.skill_path.readable /\ args.skill_path.skill_md
                THEN MainTrees ELSE {<<>>})
  /\ issues = <<>>
  /\ layer_results = <<>>
  /\ pc = "ready"
  /\ calls = 0
  /\ result = None
  /\ scanned = <<>>
  /\ sc_issues = <<>>
  /\ sc_security = None
  /\ sc_layer = None
  /\ PairIdle

NextMain ==
  \/ __enter__
  \/ evaluate
  \/ generate_report
  \/ main_save_json
  \/ main_sys_exit

SpecMain == InitMain /\ [][NextMain]_vars

\* ------------------------------------------------------------ two evaluations at once
\* two SkillEvaluator objects, each with the SecurityScanner of its
\* run_security_analysis, evaluate different packages in the mode full;
\* their steps interleave
Instances == {1, 2}

\* the packages: what the analyses other than the scan see of them
PairPackages ==
  { [quality |-> 100, utility |-> 100, compliance |-> FullCompliance],
    [quality |-> 40, utility |-> 100,
     compliance |-> Checks(<<10, TRUE>>, <<0, None>>, 15, 10, 10, 10, 10, 10)] }

\* SkillEvaluator.__init__ and SecurityScanner.__init__ for the package
\* with the scripts t
NewEvaluator(t, pkg) ==
  [tree |-> t, pkg |-> pkg, issues |-> <<>>, layer_results |-> <<>>,
   pc |-> "layer1", result |-> None, results |-> NoResults]

\* one list of findings held by the class and used by every instance
IssuesOfClass(i) == 1

\* the object whose attribute self.issues of instance i names: the list is
\* created in __init__, one for each instance
IssuesOf(i) == i

\* a layer method of the scanner of evaluation i
LayerOf(i, at, layer_name, cats, next) ==
  /\ evaluators[i].pc = at
  /\ LET lr == LayerResult(layer_name, LayerIssues(evaluators[i].tree, cats))
     IN evaluators' = [evaluators EXCEPT ![i].pc = next,
                                         ![i].layer_results = Append(@, lr),
                                         ![IssuesOf(i)].issues = @ \o lr.issues]
  /\ UNCHANGED <<class_PATTERNS, scanVars, scoreVars, results, mainVars>>

Layer1Of(i) == LayerOf(i, "layer1", Layer1Name, Layer1Categories, "layer2")
Layer2Of(i) == LayerOf(i, "layer2", Layer2Name, Layer2Categories, "layer3")
Layer3Of(i) == LayerOf(i, "layer3", Layer3Name, Layer3Categories, "layer4")
Layer4Of(i) == LayerOf(i, "layer4", Layer4Name, Layer4Categories, "layer5")
Layer5Of(i) == LayerOf(i, "layer5", Layer5Name, Layer5Categories, "score")

\* the tail of analyze() and the assignment self.results['security'] of
\* evaluate()
AnalyzeReturnOf(i) ==
  /\ evaluators[i].pc = "score"
  /\ LET r == AnalyzeResult(evaluators[IssuesOf(i)].issues,
                            evaluators[i].layer_results)
     IN evaluators' = [evaluators EXCEPT ![i].pc = "analyses",
                                         ![i].result = Some(r),
                                         ![i].results = [security |-> r]]
  /\ UNCHANGED <<class_PATTERNS, scanVars, scoreVars, results, mainVars>>

\* lines 216-221 of evaluate(): the three other analyses and the overall entry
EvaluateRestOf(i) ==
  /\ evaluators[i].pc = "analyses"
  /\ LET e == evaluators[i]
         res == e.results @@ [quality |-> [score |-> e.pkg.quality],
                              utility |-> [score |-> e.pkg.utility],
                              compliance |-> validate(e.pkg.compliance)]
     IN evaluators' = [evaluators EXCEPT
                         ![i].pc = "done",
                         ![i].results = res @@ ("overall" :> calculate_overall_score(res))]
  /\ UNCHANGED <<class_PATTERNS, scanVars, scoreVars, results, mainVars>>

InitPair ==
  /\ \E t1, t2 \in MainTrees, p1, p2 \in PairPackages :
       /\ t1 # t2
       /\ evaluators = <<NewEvaluator(t1, p1), NewEvaluator(t2, p2)>>
  /\ class_PATTERNS = PATTERNS
  /\ tree = <<>>
  /\ issues = <<>>
  /\ layer_results = <<>>
  /\ pc = "ready"
  /\ calls = 0
  /\ result = None
  /\ scanned = <<>>
  /\ sc_issues = <<>>
  /\ sc_security = None
  /\ sc_layer = None
  /\ results = NoResults
  /\ MainIdle

NextPair ==
  \E i \in Instances :
    \/ Layer1Of(i)
    \/ Layer2Of(i)
    \/ Layer3Of(i)
    \/ Layer4Of(i)
    \/ Layer5Of(i)
    \/ AnalyzeReturnOf(i)
    \/ EvaluateRestOf(i)

SpecPair == InitPair /\ [][NextPair]_vars

\* ------------------------------------------------------------ properties
RECURSIVE SumSeq(_)
SumSeq(s) == IF s = <<>> THEN 0 ELSE Head(s) + SumSeq(Tail(s))

RECURSIVE Concat(_)
Concat(ss) == IF ss = <<>> THEN <<>> ELSE Head(ss) \o Concat(Tail(ss))

Count(sev) == CountSeverity(sc_issues, sev)

\* C1: for every multiset of findings the overall security score returned
\* by calculate_security_score lies in [0, 100].
C1_SecurityScoreInRange ==
  sc_security # None => (0 <= sc_security[1] /\ sc_security[1] <= 100)

\* the severity-tier gate as the specification writes it, floors included
TierGate(critical, high, medium, low) ==
  IF critical > 0 THEN Max(0, Min(25, 25 - 5 * critical))
  ELSE IF high > 0 THEN Max(0, Min(50, 50 - 5 * high))
  ELSE IF medium > 0 THEN Max(0, Min(75, 75 - 3 * medium))
  ELSE IF low > 0 THEN Max(0, Min(90, 90 - 2 * low))
  ELSE 100

\* C2: calculate_security_score is the top-down severity-tier gate with
\* floors: max(0, min(25, 25 - 5*critical)) if critical > 0, else
\* max(0, min(50, 50 - 5*high)) if high > 0, else
\* max(0, min(75, 75 - 3*medium)) if medium > 0, else
\* max(0, min(90, 90 - 2*low)) if low > 0, else 100.
C2_TierGate ==
  sc_security # None =>
    sc_security[1] = TierGate(Count("CRITICAL"), Count("HIGH"),
                              Count("MEDIUM"), Count("LOW"))

\* C5: _calculate_layer_score returns
\* max(0, 100 - (40*#CRITICAL + 20*#HIGH + 10*#MEDIUM + 5*#LOW)),
\* so every layer score lies in [0, 100].
C5_LayerScore ==
  sc_layer # None =>
    /\ sc_layer[1] = Max(0, 100 - (40 * Count("CRITICAL") + 20 * Count("HIGH")
                                   + 10 * Count("MEDIUM") + 5 * Count("LOW")))
    /\ 0 <= sc_layer[1] /\ sc_layer[1] <= 100

\* the floor is active: findings of all four severities deduct more than 100
C5_Witness ==
  /\ sc_layer = Some(0)
  /\ \A k \in 1..4 : Count(SEVERITIES[k]) > 0
  /\ 40 * Count("CRITICAL") + 20 * Count("HIGH")
       + 10 * Count("MEDIUM") + 5 * Count("LOW") > 100

\* a file the scan reads: a script that no exclusion skips and that can be read
Scanned(f) ==
  /\ f.ext \in {"py", "sh", "bash"}
  /\ PathParts(f) \cap excluded_dirs = {}
  /\ f.name \notin excluded_files
  /\ f.readable

\* the CRITICAL expressions of the registry
CriticalRegexes ==
  UNION { { PATTERNS[c][k].regex :
              k \in { j \in 1..Len(PATTERNS[c]) : PATTERNS[c][j].severity = "CRITICAL" } } :
          c \in CATEGORIES }

\* line ln of file f has no suppression marker and a CRITICAL expression
\* matches on it at a position preceded by evenly many quotes of each kind
CriticalMatchOutsideString(f, ln) ==
  LET line == f.lines[ln]
  IN /\ ~HasIgnoreMarker(line)
     /\ \E k \in 1..Len(line) :
          /\ \E r \in CriticalRegexes : <<r, line[k]>> \in AtomMatches
          /\ CountBefore(line, k, SQ) % 2 = 0
          /\ CountBefore(line, k, DQ) % 2 = 0

\* C4: for every line of a scanned file without suppression marker on which
\* a CRITICAL pattern matches at a position preceded by an even number of
\* single quotes and of double quotes, the scan reports a CRITICAL finding
\* for that line and the overall security score is <= 25.
C4_CriticalMatchReported ==
  (pc = "ready" /\ calls > 0) =>
    \A i \in 1..Len(tree) : Scanned(tree[i]) =>
      \A ln \in 1..Len(tree[i].lines) : CriticalMatchOutsideString(tree[i], ln) =>
        /\ \E j \in 1..Len(result[1].issues) :
             /\ result[1].issues[j].severity = "CRITICAL"
             /\ result[1].issues[j].file_path = tree[i].dirs \o <<tree[i].name>>
             /\ result[1].issues[j].line_number = ln
        /\ result[1].score <= 25

\* C6: a layer's passed flag is true iff its findings contain no CRITICAL
\* and no HIGH finding, whatever the number of MEDIUM and LOW findings; the
\* returned layer records carry the same flag.
C6_LayerPassed ==
  /\ \A k \in 1..Len(layer_results) :
       layer_results[k].passed <=>
         (\A j \in 1..Len(layer_results[k].issues) :
            layer_results[k].issues[j].severity \notin {"CRITICAL", "HIGH"})
  /\ (pc = "ready" /\ calls > 0) =>
       \A k \in 1..Len(layer_results) :
         result[1].layers[k].passed = layer_results[k].passed

\* a layer with several LOW or MEDIUM findings passed, another layer failed
C6_Witness ==
  /\ pc = "ready" /\ calls > 0
  /\ \E k \in 1..Len(layer_results) :
       /\ layer_results[k].passed
       /\ Len(layer_results[k].issues) >= 2
  /\ \E k \in 1..Len(layer_results) : ~layer_results[k].passed

\* the layer of each category in the table of the specification
LayerTable ==
  [ command_injection |-> 1, path_traversal |-> 1, arbitrary_file_ops |-> 1,
    privilege_escalation |-> 2, env_var_manipulation |-> 2,
    insecure_deserialization |-> 2,
    xss_output |-> 3, information_disclosure |-> 3,
    hardcoded_credentials |-> 4, weak_crypto |-> 4,
    dos_patterns |-> 5, ssrf |-> 5 ]

\* C7: the category sets scanned by the five layer methods are pairwise
\* disjoint, their union is the key set of PATTERNS (12 categories), and
\* each category is scanned by the layer the table assigns it to.
C7_LayerPartition ==
  /\ \A j, k \in 1..Len(scanned) : j # k => scanned[j][2] # scanned[k][2]
  /\ \A k \in 1..Len(scanned) :
       /\ scanned[k][2] \in DOMAIN LayerTable
       /\ LayerTable[scanned[k][2]] = scanned[k][1]
  /\ (pc = "ready" /\ calls > 0) =>
       /\ {scanned[k][2] : k \in 1..Len(scanned)} = CATEGORIES
       /\ Cardinality(CATEGORIES) = 12

\* analyze() has returned after scanning twelve categories
C7_Witness ==
  /\ pc = "ready" /\ calls > 0
  /\ Len(scanned) = 12
  /\ Len(issues) > 0

\* C8: every finding belongs to exactly one layer: the issues list is the
\* concatenation of the layers' finding lists in layer order (five layers
\* for the first analyze() of a scanner), so the sum of the layers'
\* issue_count equals len(issues) and the sum of the four severity counts.
C8_FindingsPartition ==
  /\ issues = Concat([k \in 1..Len(layer_results) |-> layer_results[k].issues])
  /\ result # None =>
       /\ SumSeq([k \in 1..Len(result[1].layers) |-> result[1].layers[k].issue_count])
            = Len(result[1].issues)
       /\ Len(result[1].issues)
            = result[1].critical_count + result[1].high_count
                + result[1].medium_count + result[1].low_count
  /\ (pc = "ready" /\ calls > 0) =>
       /\ result[1].issues = [k \in 1..Len(issues) |-> _issue_to_dict(issues[k])]
       /\ Len(result[1].layers) = Len(layer_results)
  /\ (pc = "ready" /\ calls = 1) => Len(result[1].layers) = 5

\* a first analyze() returned findings of at least two layers
C8_Witness ==
  /\ pc = "ready" /\ calls = 1
  /\ Len(result[1].issues) >= 3
  /\ Cardinality({k \in 1..5 : result[1].layers[k].issue_count > 0}) >= 2


\* the evaluation whose overall entry has been computed
Evaluated == "overall" \in DOMAIN results

\* the unrounded weighted overall of the evaluation
Overall ==
  WeightedOverall(results.security.score, results.quality.score,
                  results.utility.score, results.compliance.score)

\* 100 times the exact weighted sum of the four dimension scores
ExactSum100 ==
  35 * results.security.score + 25 * results.quality.score
    + 20 * results.utility.score + 20 * results.compliance.score

\* |k * a - n| in units of 2^-55, for a float a and integers k > 0 and n
Distance(a, k, n) ==
  SignedAdd([neg |-> a.neg, mag |-> LMulSmall(a.mag, k)],
            [neg |-> n > 0, mag |-> LMulSmall(LOne, Abs(n))]).mag

\* C3: whenever the security score is < 50 the recommendation is the rule-1
\* hard block, whatever the weighted overall, the critical count and the
\* compliance score are.
C3_SecurityOverrideFirst ==
  (Evaluated /\ results.security.score < 50) =>
    results.overall.recommendation
      = Recommendation("cross", "DO NOT INSTALL - Critical security risks")

\* security 40 with quality, utility and compliance 100: overall 79.0, in
\* the RECOMMENDED band, and the rule-1 hard block
C3_Witness ==
  /\ Evaluated
  /\ results.overall.breakdown
       = [security |-> 40, quality |-> 100, utility |-> 100, compliance |-> 100]
  /\ results.overall.overall_score = 790
  /\ results.overall.recommendation.text = "DO NOT INSTALL - Critical security risks"

\* the four dimension scores are equal
EqualScores ==
  /\ results.quality.score = results.security.score
  /\ results.utility.score = results.security.score
  /\ results.compliance.score = results.security.score

\* the weighted overall is the double-precision value of the weighted sum
\* (within 2^-45 of the exact sum), the band is decided on the unrounded
\* value and the reported overall_score is that value rounded to one decimal
WeightedBandedRounded ==
  LET rec == results.overall.recommendation.text
  IN /\ LLess(Distance(Overall, 100, ExactSum100), <<0, 2, 0, 0, 0>>)
     /\ ~LLess(<<0, 0, 0, 64, 0>>,
               Distance(Overall, 10, results.overall.overall_score))
     /\ (results.security.score >= 50 /\ results.security.critical_count = 0
           /\ results.compliance.score >= 40) =>
          /\ rec = "HIGHLY RECOMMENDED" <=> FGe(Overall, 90)
          /\ rec = "RECOMMENDED" <=> (FGe(Overall, 75) /\ ~FGe(Overall, 90))
          /\ rec = "USE WITH CAUTION" <=> (FGe(Overall, 60) /\ ~FGe(Overall, 75))
          /\ rec = "NOT RECOMMENDED" <=> (FGe(Overall, 40) /\ ~FGe(Overall, 60))
          /\ rec = "DO NOT INSTALL" <=> ~FGe(Overall, 40)

\* C9 as stated: the weighted overall is
\* 0.35*security + 0.25*quality + 0.20*utility + 0.20*compliance, four
\* equal dimension scores x give the (unrounded) overall x, the band is
\* decided on the unrounded value and the reported overall_score is that
\* value rounded to one decimal.
C9_EqualScoresGiveOverall ==
  Evaluated =>
    /\ WeightedBandedRounded
    /\ EqualScores => Overall = FromInt(results.security.score)

\* C9 amended: the weighted overall is the double-precision value of
\* 0.35*security + 0.25*quality + 0.20*utility + 0.20*compliance; four
\* equal dimension scores x give a reported overall_score of x and an
\* unrounded overall within 2^-45 of x; the band is decided on the
\* unrounded value and the reported overall_score is that value rounded to
\* one decimal.
C9_WeightedOverall ==
  Evaluated =>
    /\ WeightedBandedRounded
    /\ EqualScores =>
         /\ results.overall.overall_score = 10 * results.security.score
         /\ LLess(Distance(Overall, 1, results.security.score), <<1024, 0, 0, 0, 0>>)

\* the reported overall_score is 90.0 and the band, decided on the
\* unrounded 89.95, is RECOMMENDED
C9_Witness ==
  /\ Evaluated
  /\ results.overall.overall_score = 900
  /\ ~FGe(Overall, 90)
  /\ results.overall.recommendation.text = "RECOMMENDED"

\* C10: whenever security >= 50 and critical_count > 0 the recommendation is
\* the hard block 'DO NOT INSTALL - Critical vulnerabilities found',
\* whatever the compliance score and the weighted overall are.
C10_CriticalOverride ==
  (Evaluated /\ results.security.score >= 50
     /\ results.security.critical_count > 0) =>
    results.overall.recommendation
      = Recommendation("cross", "DO NOT INSTALL - Critical vulnerabilities found")

\* rule 2 decided although compliance is below 40
C10_Witness ==
  /\ Evaluated
  /\ results.security.score >= 50
  /\ results.security.critical_count > 0
  /\ results.compliance.score < 40
  /\ results.overall.recommendation.text
       = "DO NOT INSTALL - Critical vulnerabilities found"

\* no override decides: security >= 50, no critical finding, compliance >= 40
NoOverride ==
  /\ results.security.score >= 50
  /\ results.security.critical_count = 0
  /\ results.compliance.score >= 40

\* C11: whenever security >= 50, critical_count = 0 and compliance < 40 the
\* recommendation is 'NOT RECOMMENDED - Fundamental compliance issues',
\* whatever the weighted overall is; with compliance >= 40 and rules 1 and 2
\* not firing that text is never returned.
C11_ComplianceOverride ==
  (Evaluated /\ results.security.score >= 50
     /\ results.security.critical_count = 0) =>
    /\ results.compliance.score < 40 =>
         results.overall.recommendation
           = Recommendation("warning", "NOT RECOMMENDED - Fundamental compliance issues")
    /\ results.compliance.score >= 40 =>
         results.overall.recommendation.text
           # "NOT RECOMMENDED - Fundamental compliance issues"

\* rule 3 decided although the weighted overall lies in the RECOMMENDED band
C11_Witness ==
  /\ Evaluated
  /\ results.security.score >= 50
  /\ results.security.critical_count = 0
  /\ results.compliance.score < 40
  /\ FGe(Overall, 75)
  /\ results.overall.recommendation.text
       = "NOT RECOMMENDED - Fundamental compliance issues"

\* the band of a weighted overall given as 100 times its value
BandOf(overall100) ==
  IF overall100 >= 9000 THEN Recommendation("check", "HIGHLY RECOMMENDED")
  ELSE IF overall100 >= 7500 THEN Recommendation("check", "RECOMMENDED")
  ELSE IF overall100 >= 6000 THEN Recommendation("warning", "USE WITH CAUTION")
  ELSE IF overall100 >= 4000 THEN Recommendation("warning", "NOT RECOMMENDED")
  ELSE Recommendation("cross", "DO NOT INSTALL")

\* C12: when no override fires (security >= 50, critical_count = 0,
\* compliance >= 40) the recommendation is the band of the weighted overall
\* 0.35*security + 0.25*quality + 0.20*utility + 0.20*compliance alone:
\* >= 90 HIGHLY RECOMMENDED, >= 75 RECOMMENDED, >= 60 USE WITH CAUTION,
\* >= 40 NOT RECOMMENDED, otherwise DO NOT INSTALL, the boundaries 90, 75,
\* 60 and 40 belonging to the upper band.
C12_BandsOfWeightedOverall ==
  (Evaluated /\ NoOverride) =>
    results.overall.recommendation = BandOf(ExactSum100)

\* the risk level the specification gives a security score
RiskLevelOf(security_score) ==
  CASE security_score >= 90 -> "Low"
    [] security_score >= 75 /\ security_score < 90 -> "Medium"
    [] security_score >= 50 /\ security_score < 75 -> "High"
    [] security_score < 50 -> "Critical"

\* C13: the risk level is a function of the security score alone: >= 90 Low,
\* >= 75 Medium, >= 50 High, otherwise Critical, whatever the quality,
\* utility and compliance scores, the critical count and the recommendation.
C13_RiskLevelOfSecurityAlone ==
  Evaluated => results.overall.risk_level = RiskLevelOf(results.security.score)

\* risk level Low next to a hard block of the recommendation
C13_Witness ==
  /\ Evaluated
  /\ results.overall.risk_level = "Low"
  /\ results.compliance.score < 40
  /\ results.overall.recommendation.icon = "cross"

\* the findings reported for pattern k of category c on line ln of file f
FindingsFor(f, ln, c, k) ==
  { j \in 1..Len(issues) :
      /\ issues[j].file_path = f.dirs \o <<f.name>>
      /\ issues[j].line_number = ln
      /\ issues[j].category = CategoryTitle(c)
      /\ issues[j].description = PATTERNS[c][k].description }

\* the number of atoms q before position m of the line is odd
OddBefore(line, m, q) == Cardinality({j \in 1..(m - 1) : line[j] = q}) % 2 = 1

\* C14: for every line and pattern, no finding is reported for a match
\* whose start is preceded on the line by an odd number of single-quote
\* characters or by an odd number of double-quote characters.
C14_QuoteParityFilter ==
  (pc = "ready" /\ calls > 0) =>
  \A i \in 1..Len(tree) : \A ln \in 1..Len(tree[i].lines) :
    \A c \in CATEGORIES : \A k \in 1..Len(PATTERNS[c]) :
      LET line == tree[i].lines[ln]
          m == re_search(PATTERNS[c][k].regex, line)
      IN (m > 0 /\ (OddBefore(line, m, SQ) \/ OddBefore(line, m, DQ))) =>
           FindingsFor(tree[i], ln, c, k) = {}

\* a scan returned no finding for a line whose match follows one double
\* quote and no single quote, and which carries no suppression marker
C14_Witness ==
  /\ pc = "ready" /\ calls > 0
  /\ Len(result[1].issues) = 0
  /\ \E i \in 1..Len(tree) : \E ln \in 1..Len(tree[i].lines) :
       LET line == tree[i].lines[ln]
           m == re_search(PATTERNS.command_injection[1].regex, line)
       IN /\ Scanned(tree[i])
          /\ m > 0
          /\ OddBefore(line, m, DQ) /\ ~OddBefore(line, m, SQ)
          /\ \A j \in 1..Len(line) : line[j] \notin {IGNORE, NOQA}

\* the line contains one of the two suppression marker tokens
Marked(line) == \E j \in 1..Len(line) : line[j] \in {IGNORE, NOQA}

\* the scan of a file evaluates pattern k of category c on line ln: no
\* expression that fails to compile has ended the scan of the file earlier
Reached(c, k, ln) ==
  \A j \in 1..Len(PATTERNS[c]) :
    ~Compiles(PATTERNS[c][j].regex) => (ln = 1 /\ k < j)

\* C15: a line that contains a suppression marker token yields no finding,
\* whatever patterns match on it; a line that does not contain the exact
\* token is never suppressed: each pattern the scan evaluates on it whose
\* match passes the quote-parity filter is reported.
C15_Suppression ==
  (pc = "ready" /\ calls > 0) =>
  \A i \in 1..Len(tree) : \A ln \in 1..Len(tree[i].lines) :
    \A c \in CATEGORIES : \A k \in 1..Len(PATTERNS[c]) :
      LET line == tree[i].lines[ln]
          m == re_search(PATTERNS[c][k].regex, line)
      IN /\ Marked(line) => FindingsFor(tree[i], ln, c, k) = {}
         /\ (Scanned(tree[i]) /\ ~Marked(line)
               /\ m > 0 /\ ~OddBefore(line, m, SQ) /\ ~OddBefore(line, m, DQ)
               /\ Reached(c, k, ln)) =>
              FindingsFor(tree[i], ln, c, k) # {}

\* a scan returned no finding for a marked line on which a CRITICAL pattern
\* matches outside any string
C15_Witness ==
  /\ pc = "ready" /\ calls > 0
  /\ Len(result[1].issues) = 0
  /\ \E i \in 1..Len(tree) : \E ln \in 1..Len(tree[i].lines) :
       LET line == tree[i].lines[ln]
           m == re_search(PATTERNS.command_injection[1].regex, line)
       IN /\ Scanned(tree[i])
          /\ Marked(line)
          /\ m > 0 /\ ~OddBefore(line, m, SQ) /\ ~OddBefore(line, m, DQ)

\* the lines of the files the scan reads that are not empty
ScriptContent ==
  { <<i, ln>> \in (1..Len(tree)) \X (1..MaxLines) :
      /\ Scanned(tree[i])
      /\ ln <= Len(tree[i].lines)
      /\ tree[i].lines[ln] # <<>> }

\* C16: for a tree whose only script content is the single line
\* os.system(user_input), the analyze() of a new scanner returns exactly one
\* finding: CRITICAL, of category command_injection (reported under its
\* title), on that line, in layer 1; layer 1 has score 60 and passed = false,
\* the other four layers have score 100, and the overall score is <= 25.
C16_OsSystemExample ==
  (pc = "ready" /\ calls = 1
     /\ \E i \in 1..Len(tree) :
          /\ ScriptContent = {<<i, 1>>}
          /\ tree[i].lines[1] = <<OS_SYSTEM_USER_INPUT>>) =>
    /\ Len(result[1].issues) = 1
    /\ result[1].issues[1].severity = "CRITICAL"
    /\ result[1].issues[1].category = CategoryTitle("command_injection")
    /\ result[1].issues[1].line_number = 1
    /\ result[1].critical_count = 1
    /\ Len(result[1].layers) = 5
    /\ result[1].layers[1].issue_count = 1
    /\ result[1].layers[1].score = 60
    /\ result[1].layers[1].passed = FALSE
    /\ \A k \in 2..5 : /\ result[1].layers[k].score = 100
                       /\ result[1].layers[k].issue_count = 0
    /\ result[1].score <= 25

\* the example tree has been analyzed once
C16_Witness ==
  /\ pc = "ready" /\ calls = 1
  /\ tree = ExampleTree
  /\ result[1].score = 20

\* pattern k of category c survives on line ln of file f: the scan evaluates
\* it there, it matches, the line has no marker and the match is preceded by
\* evenly many quotes of each kind
Survives(f, ln, c, k) ==
  LET line == f.lines[ln]
      m == re_search(PATTERNS[c][k].regex, line)
  IN /\ Reached(c, k, ln)
     /\ m > 0
     /\ ~Marked(line)
     /\ ~OddBefore(line, m, SQ) /\ ~OddBefore(line, m, DQ)

\* no pattern survives on any line of a file the scan reads
NothingSurvives ==
  \A i \in 1..Len(tree) : Scanned(tree[i]) =>
    \A ln \in 1..Len(tree[i].lines) :
      \A c \in CATEGORIES : \A k \in 1..Len(PATTERNS[c]) :
        ~Survives(tree[i], ln, c, k)

\* C17: when no pattern survives on any scanned line (a tree without script
\* files included), the analyze() of a new scanner returns zero findings,
\* the four severity counts 0, five layers that passed with score 100 and
\* the overall security score 100, whose risk level is Low.
C17_CleanTree ==
  (pc = "ready" /\ calls = 1 /\ NothingSurvives) =>
    /\ result[1].issues = <<>>
    /\ result[1].critical_count = 0 /\ result[1].high_count = 0
    /\ result[1].medium_count = 0 /\ result[1].low_count = 0
    /\ Len(result[1].layers) = 5
    /\ \A k \in 1..5 : /\ result[1].layers[k].passed
                       /\ result[1].layers[k].score = 100
    /\ result[1].score = 100
    /\ _determine_risk_level(result[1].score) = "Low"

\* a clean result for a tree whose only match lies in an excluded file
C17_Witness ==
  /\ pc = "ready" /\ calls = 1
  /\ result[1].score = 100
  /\ \E i \in 1..Len(tree) :
       /\ ~Scanned(tree[i])
       /\ tree[i].readable
       /\ tree[i].lines = <<<<OS_SYSTEM>>>>

\* what the analyze() of a new scanner returns for the tree t
FirstRun(t) ==
  LET layers == << LayerResult(Layer1Name, LayerIssues(t, Layer1Categories)),
                   LayerResult(Layer2Name, LayerIssues(t, Layer2Categories)),
                   LayerResult(Layer3Name, LayerIssues(t, Layer3Categories)),
                   LayerResult(Layer4Name, LayerIssues(t, Layer4Categories)),
                   LayerResult(Layer5Name, LayerIssues(t, Layer5Categories)) >>
  IN AnalyzeResult(Concat([k \in 1..5 |-> layers[k].issues]), layers)

\* C18: every analyze() run on the unchanged tree, on the same scanner or
\* on a new one, returns the findings, severity counts, five layer results
\* and overall score of the first run.
C18_Idempotence ==
  (pc = "ready" /\ calls > 0) => result[1] = FirstRun(tree)

\* the files of the tree that can be read
Readable(t) == SelectSeq(t, LAMBDA f : f.readable)

\* C19: a file whose reading raises an error contributes no finding, the
\* error leaves neither _scan_patterns nor analyze(), and the other script
\* files contribute exactly the findings they contribute when the
\* unreadable file is absent.
C19_UnreadableFileSkipped ==
  (pc = "ready" /\ calls = 1) =>
    /\ result[1] = FirstRun(Readable(tree))
    /\ \A i \in 1..Len(tree) : ~tree[i].readable =>
         \A j \in 1..Len(result[1].issues) :
           result[1].issues[j].file_path # tree[i].dirs \o <<tree[i].name>>

\* the first file of the walk is unreadable and a later one has a finding
C19_Witness ==
  /\ pc = "ready" /\ calls = 1
  /\ Len(ScriptFiles(tree)) >= 2
  /\ ~ScriptFiles(tree)[1].readable
  /\ Len(result[1].issues) > 0

\* C20: for a .zip skill path, every temporary directory created by
\* SkillEvaluator.__enter__ is removed by the time the run ends, on every
\* exit path: normal completion, sys.exit inside the with block, an
\* exception raised during evaluation or report generation, and a failure
\* of archive extraction inside __enter__ itself.
C20_TempDirRemoved ==
  (mpc = "done" /\ args.skill_path.suffix = ".zip") =>
    (temp_dir = None \/ temp_dir[1] \notin tmp_dirs)

\* the entries of the returned issues list for pattern k of category c on
\* line ln of file f
ReturnedFor(f, ln, c, k) ==
  { j \in 1..Len(result[1].issues) :
      /\ result[1].issues[j].file_path = f.dirs \o <<f.name>>
      /\ result[1].issues[j].line_number = ln
      /\ result[1].issues[j].category = CategoryTitle(c)
      /\ result[1].issues[j].description = PATTERNS[c][k].description }

\* C23: after any number of analyze() calls on a scanner the returned result
\* has exactly five layer records, named Layer 1 to Layer 5 in that order,
\* and an issues list in which each surviving match appears exactly once.
C23_FiveLayersEachMatchOnce ==
  (pc = "ready" /\ calls > 0) =>
    /\ [k \in 1..Len(result[1].layers) |-> result[1].layers[k].name]
         = <<Layer1Name, Layer2Name, Layer3Name, Layer4Name, Layer5Name>>
    /\ \A i \in 1..Len(tree) : Scanned(tree[i]) =>
         \A ln \in 1..Len(tree[i].lines) :
           \A c \in CATEGORIES : \A k \in 1..Len(PATTERNS[c]) :
             Survives(tree[i], ln, c, k) =>
               Cardinality(ReturnedFor(tree[i], ln, c, k)) = 1

\* the file is in the scan set: its name ends in .py, .sh or .bash, no
\* directory below the skill directory on its path has an excluded name,
\* and its name is not that of a pattern-source file
InScanSet(f) ==
  /\ f.ext \in {"py", "sh", "bash"}
  /\ \A k \in 1..Len(f.dirs) :
       f.dirs[k] \notin {"node_modules", "venv", ".venv", "__pycache__",
                         ".git", "dist", "build", ".eggs", ".tox"}
  /\ f.name \notin {"security_scanner.py", "quality_checker.py"}

\* C24: a file is scanned iff its name ends in .py, .sh or .bash, no segment
\* of its path relative to the skill directory is an excluded directory
\* name, and its name is not a pattern-source file name; a file outside the
\* scan set, or whose reading fails, yields no finding; a segment of the
\* skill directory's own absolute path never excludes a file.
C24_ScanSet ==
  (pc = "ready" /\ calls = 1) =>
    \A i \in 1..Len(tree) :
      LET f == tree[i]
          reported == { j \in 1..Len(result[1].issues) :
                          result[1].issues[j].file_path = f.dirs \o <<f.name>> }
      IN /\ (~InScanSet(f) \/ ~f.readable) => reported = {}
         /\ (InScanSet(f) /\ f.readable) =>
              \A ln \in 1..Len(f.lines) :
                \A c \in CATEGORIES : \A k \in 1..Len(PATTERNS[c]) :
                  Survives(f, ln, c, k) => ReturnedFor(f, ln, c, k) # {}

\* a script of a skill directory that lies below a directory named build
\* was scanned and its match reported
C24_Witness ==
  /\ pc = "ready" /\ calls = 1
  /\ \E i \in 1..Len(tree) :
       /\ \E k \in 1..Len(tree[i].root) : tree[i].root[k] = "build"
       /\ InScanSet(tree[i])
       /\ ReturnedFor(tree[i], 1, "command_injection", 1) # {}

\* C22: in the composed system a result with critical_count > 0 has a
\* security score <= 25 < 50, so rule 1 decides the recommendation and the
\* text of rule 2 ('Critical vulnerabilities found') is never returned.
C22_CriticalDecidedByRuleOne ==
  Evaluated =>
    /\ results.security.critical_count > 0 =>
         /\ results.security.score <= 25
         /\ results.overall.recommendation
              = Recommendation("cross", "DO NOT INSTALL - Critical security risks")
    /\ results.overall.recommendation.text
         # "DO NOT INSTALL - Critical vulnerabilities found"

\* a package with a CRITICAL finding whose other scores are all 100
C22_Witness ==
  /\ Evaluated
  /\ results.security.critical_count > 0
  /\ results.quality.score = 100 /\ results.utility.score = 100
  /\ results.compliance.score = 100
  /\ results.overall.recommendation.icon = "cross"

\* validate_structure fails: the skill directory does not exist or holds no
\* SKILL.md
StructureInvalid ==
  \/ args.skill_path.suffix = "" /\ ~args.skill_path.readable
  \/ ~args.skill_path.skill_md

\* evaluate() has been called and left
EvaluateLeft ==
  /\ mpc \in {"report", "json", "exit", "done"}
  /\ outcome # Some(Exception("BadZipFile"))

\* C25: when validate_structure fails, evaluate() runs no analysis, leaves
\* self.results empty and returns the error record with overall_score 0 and
\* recommendation 'INVALID SKILL STRUCTURE' instead of raising.
C25_InvalidStructureReturned ==
  (EvaluateLeft /\ StructureInvalid) =>
    /\ results = NoResults
    /\ returned # None
    /\ DOMAIN returned[1] = {"error", "overall_score", "recommendation"}
    /\ returned[1].overall_score = 0
    /\ returned[1].recommendation = Recommendation("cross", "INVALID SKILL STRUCTURE")
    /\ outcome # Some(Exception("evaluation"))

\* evaluate() has returned for a directory without SKILL.md
C25_Witness ==
  /\ mpc = "report"
  /\ args.skill_path.readable /\ ~args.skill_path.skill_md
  /\ returned # None
  /\ results = NoResults

\* the recommendation the run ends with
FinalRecommendation ==
  IF "overall" \in DOMAIN returned[1] THEN returned[1].overall.recommendation
  ELSE returned[1].recommendation

\* C26: every run of main that reaches its last statement ends with the exit
\* code of the final recommendation: 0 iff it is RECOMMENDED or HIGHLY
\* RECOMMENDED, 1 for a DO NOT INSTALL, 2 for a warning; this includes the
\* run on an invalid skill structure.
C26_ExitCodeOfRecommendation ==
  (mpc = "done" /\ returned # None
     /\ outcome \notin {Some(Exception("OSError")), Some(Exception("evaluation"))}) =>
    /\ outcome[1].kind = "exit"
    /\ outcome[1].code = 0 <=>
         FinalRecommendation.text \in {"RECOMMENDED", "HIGHLY RECOMMENDED"}
    /\ FinalRecommendation \in DoNotInstall => outcome[1].code = 1
    /\ FinalRecommendation.icon = "warning" => outcome[1].code = 2

\* C27: in the composed system a HIGH or CRITICAL finding (equivalently a
\* layer with passed = false) gives a security score < 50, so the
\* recommendation is the hard block of rule 1 and the risk level is Critical.
C27_HighOrCriticalBlocks ==
  Evaluated =>
    /\ (\E k \in 1..Len(results.security.layers) : ~results.security.layers[k].passed)
         <=> (results.security.high_count + results.security.critical_count > 0)
    /\ (\E j \in 1..Len(results.security.issues) :
           results.security.issues[j].severity \in {"HIGH", "CRITICAL"}) =>
         /\ results.security.score < 50
         /\ results.overall.recommendation
              = Recommendation("cross", "DO NOT INSTALL - Critical security risks")
         /\ results.overall.risk_level = "Critical"

\* one HIGH finding, no CRITICAL one, and every other score 100
C27_Witness ==
  /\ Evaluated
  /\ results.security.high_count = 1
  /\ results.security.critical_count = 0
  /\ results.quality.score = 100 /\ results.utility.score = 100
  /\ results.compliance.score = 100
  /\ results.overall.risk_level = "Critical"

\* C29: whenever the result of ComplianceValidator.validate has auto_fail =
\* true its score is below 40, on every return path, so the recommendation
\* of the evaluation is never RECOMMENDED or HIGHLY RECOMMENDED.
C29_AutoFailBelow40 ==
  (Evaluated /\ results.compliance.auto_fail) =>
    /\ results.compliance.score < 40
    /\ results.overall.recommendation.text
         \notin {"RECOMMENDED", "HIGHLY RECOMMENDED"}

\* C30: the mode security sets quality and utility to 0, so the overall
\* score is at most 55 and the recommendation is never RECOMMENDED, HIGHLY
\* RECOMMENDED or USE WITH CAUTION and the exit code never 0, even for a
\* package without findings and with compliance 100; the modes full and
\* pre-publish run all four analyses and give the scores and the
\* recommendation of the package, the same in both modes.
C30_Modes ==
  Evaluated =>
    /\ args.mode = "security" =>
         /\ results.quality.score = 0 /\ results.utility.score = 0
         /\ results.overall.overall_score <= 550
         /\ results.overall.recommendation.text
              \notin {"RECOMMENDED", "HIGHLY RECOMMENDED", "USE WITH CAUTION"}
         /\ (mpc = "done" /\ outcome[1].kind = "exit") => outcome[1].code # 0
    /\ args.mode \in {"full", "pre-publish"} =>
         LET four == [security |-> FirstRun(tree),
                      quality |-> [score |-> args.skill_path.quality],
                      utility |-> [score |-> args.skill_path.utility],
                      compliance |-> validate(args.skill_path.compliance)]
         IN /\ \A d \in DOMAIN four : results[d] = four[d]
            /\ results.overall = calculate_overall_score(four)

\* a run in the mode security on a package without findings and with
\* compliance 100 has ended with exit code 2
C30_Witness ==
  /\ mpc = "done"
  /\ Evaluated
  /\ args.mode = "security"
  /\ results.security.issues = <<>>
  /\ results.compliance.score = 100
  /\ results.overall.overall_score = 550
  /\ outcome = Some(SystemExit(2))

\* the order of the recommendations, from worst to best
Rank(rec) ==
  CASE rec.text \in {"DO NOT INSTALL", "DO NOT INSTALL - Critical security risks",
                     "DO NOT INSTALL - Critical vulnerabilities found"} -> 0
    [] rec.text \in {"NOT RECOMMENDED",
                     "NOT RECOMMENDED - Fundamental compliance issues"} -> 1
    [] rec.text = "USE WITH CAUTION" -> 2
    [] rec.text = "RECOMMENDED" -> 3
    [] rec.text = "HIGHLY RECOMMENDED" -> 4

\* the evaluation of the same scores with the compliance score c
WithCompliance(c) ==
  calculate_overall_score([security |-> results.security,
                           quality |-> results.quality,
                           utility |-> results.utility,
                           compliance |-> [score |-> c]])

\* the weighted overall of the same scores with the compliance score c
OverallWith(c) ==
  WeightedOverall(results.security.score, results.quality.score,
                  results.utility.score, c)

\* the rank of the band of a weighted overall
BandRank(overall) ==
  IF FGe(overall, 90) THEN 4
  ELSE IF FGe(overall, 75) THEN 3
  ELSE IF FGe(overall, 60) THEN 2
  ELSE IF FGe(overall, 40) THEN 1
  ELSE 0

\* rule 3 decides the recommendation
RuleThree ==
  /\ results.security.score >= 50
  /\ results.security.critical_count = 0
  /\ results.compliance.score < 40

\* C28: with security, quality, utility and the critical count fixed, a
\* higher compliance score never gives a worse recommendation (from worst to
\* best: DO NOT INSTALL, NOT RECOMMENDED, USE WITH CAUTION, RECOMMENDED,
\* HIGHLY RECOMMENDED); in particular rule 3 never returns a better
\* recommendation than the band of the weighted overall.
C28_MonotoneInCompliance ==
  Evaluated =>
    /\ \A c \in ComplianceScores : c > results.compliance.score =>
         Rank(WithCompliance(c).recommendation)
           >= Rank(results.overall.recommendation)
    /\ RuleThree => Rank(results.overall.recommendation) <= BandRank(Overall)

\* C28 as amended: a higher compliance score never gives a worse
\* recommendation, except when the score rises from below 40 to 40 or more
\* and the weighted overall at the higher score is below 40: NOT RECOMMENDED
\* of rule 3 then gives way to DO NOT INSTALL of the bands; rule 3 returns
\* no better recommendation than the band of the weighted overall unless
\* that overall is below 40.
C28_MonotoneBesideRuleThree ==
  Evaluated =>
    /\ \A c \in ComplianceScores :
         (c > results.compliance.score
            /\ Rank(WithCompliance(c).recommendation)
                 < Rank(results.overall.recommendation)) =>
           /\ results.compliance.score < 40
           /\ c >= 40
           /\ ~FGe(OverallWith(c), 40)
    /\ (RuleThree /\ FGe(Overall, 40)) =>
         Rank(results.overall.recommendation) <= BandRank(Overall)

\* rule 3 has decided, a higher compliance score below 40 gives the same
\* recommendation and one of 40 or more a worse one
C28_Witness ==
  /\ Evaluated
  /\ RuleThree
  /\ \E c \in ComplianceScores :
       /\ c > results.compliance.score /\ c < 40
       /\ WithCompliance(c).recommendation = results.overall.recommendation
  /\ \E c \in ComplianceScores :
       /\ c >= 40
       /\ Rank(WithCompliance(c).recommendation) < Rank(results.overall.recommendation)

\* what the evaluation of the package with the scripts t gives when it runs
\* alone
Alone(t, pkg) ==
  LET res == [security |-> FirstRun(t),
              quality |-> [score |-> pkg.quality],
              utility |-> [score |-> pkg.utility],
              compliance |-> validate(pkg.compliance)]
  IN res @@ ("overall" :> calculate_overall_score(res))

\* the layer records the scan of the tree t appends when it runs alone
AloneLayers(t) ==
  << LayerResult(Layer1Name, LayerIssues(t, Layer1Categories)),
     LayerResult(Layer2Name, LayerIssues(t, Layer2Categories)),
     LayerResult(Layer3Name, LayerIssues(t, Layer3Categories)),
     LayerResult(Layer4Name, LayerIssues(t, Layer4Categories)),
     LayerResult(Layer5Name, LayerIssues(t, Layer5Categories)) >>

\* C21: two evaluations that run concurrently on different packages, their
\* steps interleaving in any order, share no mutable state: at every step
\* the findings and layer results of each are those of its own package,
\* its returned result, scores and recommendation are what it produces
\* when run alone, and the class-level table PATTERNS is never written.
C21_Independence ==
  /\ class_PATTERNS = PATTERNS
  /\ \A i \in DOMAIN evaluators :
       LET e == evaluators[i]
           n == Len(e.layer_results)
           alone == AloneLayers(e.tree)
       IN /\ e.layer_results = SubSeq(alone, 1, n)
          /\ e.issues = Concat([k \in 1..n |-> alone[k].issues])
          /\ e.result # None => e.result[1] = FirstRun(e.tree)
          /\ e.pc = "done" => e.results = Alone(e.tree, e.pkg)

\* both scans are under way and each has found something
C21_Witness ==
  /\ DOMAIN evaluators = Instances
  /\ evaluators[1].pc = "layer3" /\ evaluators[2].pc = "layer5"
  /\ evaluators[1].issues # <<>> /\ evaluators[2].issues # <<>>
  /\ evaluators[1].issues # evaluators[2].issues

TypeOK ==
  /\ pc \in {"ready", "layer2", "layer3", "layer4", "layer5", "score"}
  /\ calls \in 0..MaxCalls
====
